---- MODULE Spec2Model ----
\* Model of the binary codec of go-bmf (AngelCode BMF, version 3):
\* the primitive reader and writer of internal/binary, the charset table,
\* ParseBinary and SerializeBinary.
\*
\* A byte is a number in 0..255, a Go string or []byte is a sequence of
\* bytes, a Go int is an integer.  The io.Reader handed to ParseBinary is an
\* in-memory reader over the input bytes: one call of its Read delivers
\* min(n, remaining) bytes and reports io.EOF only when nothing remains.
EXTENDS Integers, Sequences, FiniteSets, TLC

------------------------------------------------------------------------
\* Bytes, integers of fixed width, strings

Min(a, b) == IF a <= b THEN a ELSE b

Zeros(n) == [i \in 1..n |-> 0]

\* encoding/binary LittleEndian.Uint16 / Uint32 on the first bytes of b
LEUint16(b) == b[1] + 256 * b[2]

LEUint32(b) == b[1] + 256 * b[2] + 65536 * b[3] + 16777216 * b[4]

\* LittleEndian.PutUint16 / PutUint32: the low 16 / 32 bits of v, low byte first
PutUint16(v) == << v % 256, (v \div 256) % 256 >>

PutUint32(v) ==
    << v % 256, (v \div 256) % 256, (v \div 65536) % 256, (v \div 16777216) % 256 >>

\* LittleEndian.Uint32 read as int32: the two's complement value of four bytes
LEInt32(b) ==
    b[1] + 256 * b[2] + 65536 * b[3]
        + 16777216 * (IF b[4] >= 128 THEN b[4] - 256 ELSE b[4])

\* Go conversions between integer types: truncation to the width, then the
\* two's complement reading for the signed types.  Every integer of the model
\* lies in the int32 range, so a conversion to int32 or uint32 keeps the 32
\* bits as they are; PutUint32 writes those bits for a negative value too.
ToUint8(i) == i % 256

ToUint16(i) == i % 65536

ToInt16(i) == LET u == i % 65536 IN IF u >= 32768 THEN u - 65536 ELSE u

\* bit k (0 = least significant) of a byte: b >> k & 0x1
Bit(b, k) == (b \div (2 ^ k)) % 2

\* strings.ToLower on ASCII text
LowerByte(c) == IF c >= 65 /\ c <= 90 THEN c + 32 ELSE c

ToLower(s) == [i \in 1..Len(s) |-> LowerByte(s[i])]

IsDigit(c) == c >= 48 /\ c <= 57

RECURSIVE DigitsValue(_)
DigitsValue(s) ==
    IF Len(s) = 0 THEN 0
    ELSE 10 * DigitsValue(SubSeq(s, 1, Len(s) - 1)) + (s[Len(s)] - 48)

\* strconv.Atoi: an optional sign followed by at least one decimal digit
Atoi(s) ==
    LET signed == Len(s) > 0 /\ s[1] \in {43, 45}
        digits == IF signed THEN Tail(s) ELSE s
        good   == Len(digits) > 0 /\ \A i \in 1..Len(digits) : IsDigit(digits[i])
        mag    == IF good THEN DigitsValue(digits) ELSE 0
    IN  [value |-> IF signed /\ s[1] = 45 THEN 0 - mag ELSE mag, ok |-> good]

\* fmt.Sprintf("%d", n)
RECURSIVE NatDigits(_)
NatDigits(n) ==
    IF n < 10 THEN << 48 + n >>
    ELSE NatDigits(n \div 10) \o << 48 + (n % 10) >>

Itoa(n) == IF n < 0 THEN << 45 >> \o NatDigits(0 - n) ELSE NatDigits(n)

\* strings.Trim(s, " "): every leading and every trailing space is removed
RECURSIVE TrimLeft(_)
TrimLeft(s) == IF Len(s) > 0 /\ s[1] = 32 THEN TrimLeft(Tail(s)) ELSE s

RECURSIVE TrimRight(_)
TrimRight(s) ==
    IF Len(s) > 0 /\ s[Len(s)] = 32 THEN TrimRight(SubSeq(s, 1, Len(s) - 1)) ELSE s

Trim(s) == TrimRight(TrimLeft(s))

\* utf8.RuneCountInString for strings whose bytes are below 0xE0: a lead byte
\* 0xC2..0xDF followed by a continuation byte 0x80..0xBF is one rune of two
\* bytes, every other byte is one rune
RECURSIVE RuneCount(_)
RuneCount(s) ==
    IF Len(s) = 0 THEN 0
    ELSE IF Len(s) >= 2 /\ s[1] >= 194 /\ s[1] <= 223 /\ s[2] >= 128 /\ s[2] <= 191
         THEN 1 + RuneCount(SubSeq(s, 3, Len(s)))
         ELSE 1 + RuneCount(Tail(s))

\* fmt.Sprintf("%-*s", width, s): s followed by spaces up to width runes
PadRight(s, width) ==
    LET n == RuneCount(s)
    IN  IF n >= width THEN s ELSE s \o [i \in 1..(width - n) |-> 32]

------------------------------------------------------------------------
\* Charset table

CharsetTable ==
       186 :> <<66,97,108,116,105,99>>                    \* Baltic
    @@ 77  :> <<77,97,99>>                                \* Mac
    @@ 204 :> <<82,117,115,115,105,97,110>>               \* Russian
    @@ 238 :> <<69,97,115,116,69,117,114,111,112,101>>    \* EastEurope
    @@ 222 :> <<84,104,97,105>>                           \* Thai
    @@ 163 :> <<86,105,101,116,110,97,109,101,115,101>>   \* Vietnamese
    @@ 162 :> <<84,117,114,107,105,115,104>>              \* Turkish
    @@ 161 :> <<71,114,101,101,107>>                      \* Greek
    @@ 178 :> <<65,114,97,98,105,99>>                     \* Arabic
    @@ 177 :> <<72,101,98,114,101,119>>                   \* Hebrew
    @@ 130 :> <<74,111,104,97,98>>                        \* Johab
    @@ 255 :> <<79,101,109>>                              \* Oem
    @@ 136 :> <<67,104,105,110,101,115,101,66,105,103,53>> \* ChineseBig5
    @@ 134 :> <<71,66,50,51,49,50>>                       \* GB2312
    @@ 129 :> <<72,97,110,103,117,108>>                   \* Hangul
    @@ 128 :> <<83,104,105,102,116,74,73,83>>             \* ShiftJIS
    @@ 2   :> <<83,121,109,98,111,108>>                   \* Symbol
    @@ 1   :> <<68,101,102,97,117,108,116>>               \* Default
    @@ 0   :> <<65,110,115,105>>                          \* Ansi

LookupCharset(charsetEnum) ==
    IF charsetEnum \in DOMAIN CharsetTable
    THEN [name |-> CharsetTable[charsetEnum], found |-> TRUE]
    ELSE [name |-> Itoa(charsetEnum), found |-> FALSE]

\* LookupCharsetValue comparing the names as they are written
LookupCharsetValue_CaseSensitive(charset) ==
    LET keys == {k \in DOMAIN CharsetTable : CharsetTable[k] = charset}
    IN  IF keys # {}
        THEN [value |-> CHOOSE k \in keys : TRUE, found |-> TRUE]
        ELSE [value |-> Atoi(charset).value, found |-> Atoi(charset).ok]

\* The table's names differ pairwise in lower case, so the iteration order of
\* the map does not change which key is returned.
LookupCharsetValue(charset) ==
    LET lc   == ToLower(charset)
        keys == {k \in DOMAIN CharsetTable : ToLower(CharsetTable[k]) = lc}
    IN  IF keys # {}
        THEN [value |-> CHOOSE k \in keys : TRUE, found |-> TRUE]
        ELSE [value |-> Atoi(lc).value, found |-> Atoi(lc).ok]

\* Bool(i) and Bool.Byte(): a boolean is stored as 1 (true) or 0 (false)
Bool(i) == i = 1

BoolByte(b) == IF b THEN 1 ELSE 0

------------------------------------------------------------------------
\* internal/binary: Reader

NoErr == "nil"

EOF == "EOF"

\* binary.Reader{Src: src}: Index 0, no error, no buffer.  buf is the whole
\* backing array (its length is cap(br.buf)), len is len(br.buf).
NewReader(src) == [Src |-> src, Index |-> 0, Err |-> NoErr, buf |-> << >>, len |-> 0]

\* br.buf as the typed reads see it: the first len bytes of the backing array
Buf(br) == SubSeq(br.buf, 1, br.len)

\* One call of Src.Read(p) with len(p) = n on the in-memory source
SrcRead(src, n) ==
    IF Len(src) = 0 THEN [nread |-> 0, err |-> EOF]
    ELSE [nread |-> Min(n, Len(src)), err |-> NoErr]

\* With(v, F) binds the value v to the parameter of F
With(v, F(_)) == F(v)

\* br.buf after the (re)allocation at the head of Read
Realloc(buf, n) == IF Len(buf) <= n THEN Zeros(n) ELSE buf

\* The Reader after Src.Read returned r for a request of n bytes into arr
AfterRead(br, n, arr, r) ==
    [ Src   |-> SubSeq(br.Src, r.nread + 1, Len(br.Src)),
      Index |-> br.Index + r.nread,
      Err   |-> r.err,
      buf   |-> [i \in 1..Len(arr) |-> IF i <= r.nread THEN br.Src[i] ELSE arr[i]],
      len   |-> n ]

Read(br, n) ==
    IF br.Err # NoErr THEN br
    ELSE AfterRead(br, n, Realloc(br.buf, n), SrcRead(br.Src, n))

\* The width in bytes and the decoding of each typed read
FieldWidth(kind) ==
    CASE kind = "UInt8"  -> 1
      [] kind = "Bits"   -> 1
      [] kind = "UInt16" -> 2
      [] kind = "Int16"  -> 2
      [] kind = "UInt32" -> 4
      [] kind = "Rune"   -> 4

\* Mutant: ReadInt16 without the conversion to int16
Decode_Int16Unsigned(kind, b) ==
    CASE kind = "UInt8"  -> b[1]
      [] kind = "Bits"   -> b[1]
      [] kind = "UInt16" -> LEUint16(b)
      [] kind = "Int16"  -> LEUint16(b)
      [] kind = "UInt32" -> LEUint32(b)
      [] kind = "Rune"   -> LEInt32(b)

Decode(kind, b) ==
    CASE kind = "UInt8"  -> b[1]
      [] kind = "Bits"   -> b[1]
      [] kind = "UInt16" -> LEUint16(b)
      [] kind = "Int16"  -> ToInt16(LEUint16(b))
      [] kind = "UInt32" -> LEUint32(b)
      [] kind = "Rune"   -> LEInt32(b)

\* ReadUInt8, ReadUInt16, ReadInt16, ReadUInt32, ReadBits, ReadRune: the value
\* is decoded from the buffer whenever Read reports success
ReadField(br, kind) ==
    With(Read(br, FieldWidth(kind)),
         LAMBDA r : [rd |-> r, ok |-> r.Err = NoErr,
                     v |-> IF r.Err = NoErr THEN Decode(kind, Buf(r)) ELSE 0])

\* A run of typed reads, each returning at once when it fails: fail is the
\* position of the failed read, 0 when all succeeded
RECURSIVE ReadFields(_, _)
ReadFields(br, kinds) ==
    IF Len(kinds) = 0 THEN [rd |-> br, vals |-> << >>, fail |-> 0]
    ELSE With(ReadField(br, Head(kinds)),
           LAMBDA f :
             IF ~f.ok THEN [rd |-> f.rd, vals |-> << >>, fail |-> 1]
             ELSE With(ReadFields(f.rd, Tail(kinds)),
                    LAMBDA rest :
                      [rd |-> rest.rd, vals |-> << f.v >> \o rest.vals,
                       fail |-> IF rest.fail = 0 THEN 0 ELSE rest.fail + 1]))

\* ReadNullString: i is the number of bytes accepted so far into buf
RECURSIVE ReadNullStringFrom(_, _, _, _)
ReadNullStringFrom(br, max, i, acc) ==
    IF i = max
    THEN [rd |-> [br EXCEPT !.Err = "string was not null terminated"], ok |-> FALSE, v |-> << >>]
    ELSE With(Read(br, 1),
           LAMBDA r :
             IF r.Err # NoErr THEN [rd |-> r, ok |-> FALSE, v |-> << >>]
             ELSE IF r.buf[1] = 0 THEN [rd |-> r, ok |-> TRUE, v |-> acc]
             ELSE ReadNullStringFrom(r, max, i + 1, Append(acc, r.buf[1])))

ReadNullString(br, max) == ReadNullStringFrom(br, max, 0, << >>)

ReadString(br, c) ==
    With(Read(br, c),
         LAMBDA r : [rd |-> r, ok |-> r.Err = NoErr,
                     v |-> IF r.Err = NoErr THEN Buf(r) ELSE << >>])

------------------------------------------------------------------------
\* The Font model (zero values of the Go structs)

ZeroInfo ==
    [ Face |-> << >>, Size |-> 0, Bold |-> FALSE, Italic |-> FALSE, Charset |-> << >>,
      Unicode |-> FALSE, StretchH |-> 0, Smooth |-> FALSE, AA |-> 0,
      Padding |-> [Up |-> 0, Right |-> 0, Down |-> 0, Left |-> 0],
      Spacing |-> [Horizontal |-> 0, Vertical |-> 0], Outline |-> 0 ]

ZeroCommon ==
    [ LineHeight |-> 0, Base |-> 0, ScaleW |-> 0, ScaleH |-> 0, Pages |-> 0,
      Packed |-> FALSE, AlphaChannel |-> 0, RedChannel |-> 0, GreenChannel |-> 0,
      BlueChannel |-> 0 ]

ZeroFont ==
    [ Info |-> ZeroInfo, Common |-> ZeroCommon, Pages |-> << >>, Chars |-> << >>,
      Kernings |-> << >> ]

------------------------------------------------------------------------
\* Binary codec: parse

SupportedVersion == 3

blockHeader == 0

blockInfo == 1

blockCommon == 2

blockPages == 3

blockChars == 4

blockKerningPairs == 5

\* "BMF"
Magic == << 66, 77, 70 >>

\* BinaryParseError; Err = NoErr stands for a nil error
NilError == [Offset |-> 0, Block |-> blockHeader, BlockLength |-> 0, Err |-> NoErr]

BinaryParseError(offset, block, blockLength, cause) ==
    [Offset |-> offset, Block |-> block, BlockLength |-> blockLength, Err |-> cause]

\* Mutant: err == io.EOF on the wrapping BinaryParseError, which never holds
IsEOF_NotUnwrapped(err) == FALSE

\* errors.Is(err, io.EOF): the wrapped cause is io.EOF itself
IsEOF(err) == err.Err = EOF

\* The error parseHeaderBinary's deferred function builds
HeaderError(frd, cause) ==
    [rd |-> frd, err |-> BinaryParseError(frd.Index, blockHeader, 4, cause)]

\* Mutant: the version byte is read but not compared
parseHeaderBinary_NoVersionCheck(frd) ==
    With(ReadString(frd, 3),
      LAMBDA s :
        IF ~s.ok THEN HeaderError(s.rd, "expected three bytes for the file identifier")
        ELSE IF s.v # Magic THEN HeaderError(s.rd, "expected 'BMF'")
        ELSE With(ReadField(s.rd, "UInt8"),
               LAMBDA v :
                 IF ~v.ok THEN HeaderError(v.rd, "expected one byte for the format version")
                 ELSE [rd |-> v.rd, err |-> NilError]))

parseHeaderBinary(frd) ==
    With(ReadString(frd, 3),
      LAMBDA s :
        IF ~s.ok THEN HeaderError(s.rd, "expected three bytes for the file identifier")
        ELSE IF s.v # Magic THEN HeaderError(s.rd, "expected 'BMF'")
        ELSE With(ReadField(s.rd, "UInt8"),
               LAMBDA v :
                 IF ~v.ok THEN HeaderError(v.rd, "expected one byte for the format version")
                 ELSE IF v.v # SupportedVersion
                 THEN HeaderError(v.rd, "expected version to be one 3")
                 ELSE [rd |-> v.rd, err |-> NilError]))

InfoLayout ==
    << "Int16", "Bits", "UInt8", "UInt16", "UInt8", "UInt8", "UInt8", "UInt8", "UInt8",
       "UInt8", "UInt8", "UInt8" >>

\* Mutant: the bits of Italic and Bold exchanged
InfoFlags_ItalicBoldSwapped(info, flags) ==
    [info EXCEPT !.Smooth  = Bool(Bit(flags, 7)),
                 !.Unicode = Bool(Bit(flags, 6)),
                 !.Italic  = Bool(Bit(flags, 4)),
                 !.Bold    = Bool(Bit(flags, 5))]

\* The flags byte of the info block
InfoFlags(info, flags) ==
    [info EXCEPT !.Smooth  = Bool(Bit(flags, 7)),
                 !.Unicode = Bool(Bit(flags, 6)),
                 !.Italic  = Bool(Bit(flags, 5)),
                 !.Bold    = Bool(Bit(flags, 4))]

\* The fields of the info block before the font name, from the values read
InfoFields(v) ==
    [InfoFlags(ZeroInfo, v[2]) EXCEPT
        !.Size     = v[1],
        !.Charset  = IF ~InfoFlags(ZeroInfo, v[2]).Unicode THEN LookupCharset(v[3]).name
                     ELSE << >>,
        !.StretchH = v[4],
        !.AA       = v[5],
        !.Padding  = [Up |-> v[6], Right |-> v[7], Down |-> v[8], Left |-> v[9]],
        !.Spacing  = [Horizontal |-> v[10], Vertical |-> v[11]],
        !.Outline  = v[12]]

\* The tail of parseInfoBinary: the font name of fontNameLen bytes
parseFontName(name, fontNameLen, info) ==
    IF ~name.ok
    THEN [rd |-> name.rd, err |-> "expected bytes for fontName", val |-> ZeroInfo]
    ELSE IF name.v[fontNameLen] # 0
    THEN [rd |-> name.rd, err |-> "expected fontName to be null terminated", val |-> ZeroInfo]
    ELSE [rd |-> name.rd, err |-> NoErr,
          val |-> [info EXCEPT !.Face = SubSeq(name.v, 1, fontNameLen - 1)]]

parseInfoBinary(brd, blockLength) ==
    IF blockLength < 15
    THEN [rd |-> brd, err |-> "expected at least 15 bytes for info block", val |-> ZeroInfo]
    ELSE With(ReadFields(brd, InfoLayout),
           LAMBDA r :
             IF r.fail # 0
             THEN [rd |-> r.rd, err |-> "expected bytes for an info field", val |-> ZeroInfo]
             ELSE parseFontName(ReadString(r.rd, blockLength - r.rd.Index),
                                blockLength - r.rd.Index, InfoFields(r.vals)))

CommonLayout ==
    << "UInt16", "UInt16", "UInt16", "UInt16", "UInt16", "Bits", "UInt8", "UInt8", "UInt8",
       "UInt8" >>

CommonFields(v) ==
    [ LineHeight |-> v[1], Base |-> v[2], ScaleW |-> v[3], ScaleH |-> v[4], Pages |-> v[5],
      Packed |-> Bool(Bit(v[6], 0)),
      AlphaChannel |-> v[7], RedChannel |-> v[8], GreenChannel |-> v[9],
      BlueChannel |-> v[10] ]

parseCommonBinary(brd, blockLength) ==
    IF blockLength # 15
    THEN [rd |-> brd, err |-> "expected 15 bytes for common block", val |-> ZeroCommon]
    ELSE With(ReadFields(brd, CommonLayout),
           LAMBDA r :
             IF r.fail # 0
             THEN [rd |-> r.rd, err |-> "expected bytes for a common field", val |-> ZeroCommon]
             ELSE [rd |-> r.rd, err |-> NoErr, val |-> CommonFields(r.vals)])

\* Mutant: strings.TrimRight in place of strings.Trim
TrimPageName_RightOnly(name) == TrimRight(name)

\* strings.Trim(name, " ") as parsePagesBinary applies it to a page name
TrimPageName(name) == Trim(name)

\* The records after the first: i is the index of the next record
RECURSIVE parseMorePages(_, _, _, _, _)
parseMorePages(brd, nameLen, count, i, pages) ==
    IF i >= count THEN [rd |-> brd, err |-> NoErr, val |-> pages]
    ELSE With(ReadString(brd, nameLen),
           LAMBDA name :
             IF ~name.ok
             THEN [rd |-> name.rd, err |-> "expected bytes for pageName", val |-> << >>]
             ELSE parseMorePages(name.rd, nameLen, count, i + 1,
                      Append(pages, [Id |-> i,
                                     File |-> TrimPageName(SubSeq(name.v, 1, nameLen - 1))])))

\* Mutant: no test that the block length is a multiple of the stride
parsePagesStride_NoCheck(file0, nameLen, blockLength) ==
    parseMorePages(file0.rd, nameLen, blockLength \div nameLen, 1,
                   << [Id |-> 0, File |-> TrimPageName(file0.v)] >>)

\* parsePagesBinary after the first name: nameLen is the stride
parsePagesStride(file0, nameLen, blockLength) ==
    IF blockLength % nameLen # 0
    THEN [rd |-> file0.rd, err |-> "expected multiple of nameLen bytes for pages block",
          val |-> << >>]
    ELSE parseMorePages(file0.rd, nameLen, blockLength \div nameLen, 1,
                        << [Id |-> 0, File |-> TrimPageName(file0.v)] >>)

parsePagesBinary(brd, blockLength) ==
    With(ReadNullString(brd, blockLength),
      LAMBDA file0 :
        IF ~file0.ok
        THEN [rd |-> file0.rd, err |-> "expected first null-terminated pageName",
              val |-> << >>]
        ELSE parsePagesStride(file0, Len(file0.v) + 1, blockLength))

CharLayout ==
    << "Rune", "UInt16", "UInt16", "UInt16", "UInt16", "Int16", "Int16", "Int16", "UInt8",
       "UInt8" >>

CharSize == 20

CharFields(v) ==
    [ Id |-> v[1], X |-> v[2], Y |-> v[3], Width |-> v[4], Height |-> v[5],
      XOffset |-> v[6], YOffset |-> v[7], XAdvance |-> v[8], Page |-> v[9],
      Channel |-> v[10] ]

RECURSIVE parseCharRecords(_, _, _, _)
parseCharRecords(brd, charCount, charIdx, chars) ==
    IF charIdx >= charCount THEN [rd |-> brd, err |-> NoErr, val |-> chars]
    ELSE With(ReadFields(brd, CharLayout),
           LAMBDA r :
             IF r.fail # 0
             THEN [rd |-> r.rd, err |-> "at character: expected bytes for a field",
                   val |-> << >>]
             ELSE parseCharRecords(r.rd, charCount, charIdx + 1,
                                   Append(chars, CharFields(r.vals))))

\* Mutant: no test of the block length, the record count is rounded down
parseCharsBinary_Truncating(brd, blockLength) ==
    parseCharRecords(brd, blockLength \div CharSize, 0, << >>)

parseCharsBinary(brd, blockLength) ==
    IF blockLength % CharSize # 0
    THEN [rd |-> brd, err |-> "expected a multiple of 20 bytes for charater block",
          val |-> << >>]
    ELSE parseCharRecords(brd, blockLength \div CharSize, 0, << >>)

KerningLayout == << "Rune", "Rune", "Int16" >>

KerningSize == 10

KerningFields(v) == [First |-> v[1], Second |-> v[2], Amount |-> v[3]]

RECURSIVE parseKerningRecords(_, _, _, _)
parseKerningRecords(brd, kernCount, kernIdx, kernings) ==
    IF kernIdx >= kernCount THEN [rd |-> brd, err |-> NoErr, val |-> kernings]
    ELSE With(ReadFields(brd, KerningLayout),
           LAMBDA r :
             IF r.fail # 0
             THEN [rd |-> r.rd, err |-> "at kerning pair: expected bytes for a field",
                   val |-> << >>]
             ELSE parseKerningRecords(r.rd, kernCount, kernIdx + 1,
                                      Append(kernings, KerningFields(r.vals))))

parseKerningPairsBinary(brd, blockLength) ==
    IF blockLength % KerningSize # 0
    THEN [rd |-> brd, err |-> "expected a multiple of 10 bytes for kerning pairs block",
          val |-> << >>]
    ELSE parseKerningRecords(brd, blockLength \div KerningSize, 0, << >>)

\* Mutant: the upper limit of the block-type test is off by one
ValidBlockId_UpTo6(blockId) == ~(blockId < 1 \/ blockId > 6)

\* The block-type test of parseBlockBinary
ValidBlockId(blockId) == ~(blockId < 1 \/ blockId > 5)

\* The switch of parseBlockBinary: the sub-parser of the block type, run on a
\* fresh Reader over the same source, and the field of the Font it assigns.
\* The switch has no default: another block type runs no sub-parser.
parseBlockBody(blockType, blockReader, blockLen) ==
    CASE blockType = blockInfo         -> parseInfoBinary(blockReader, blockLen)
      [] blockType = blockCommon       -> parseCommonBinary(blockReader, blockLen)
      [] blockType = blockPages        -> parsePagesBinary(blockReader, blockLen)
      [] blockType = blockChars        -> parseCharsBinary(blockReader, blockLen)
      [] blockType = blockKerningPairs -> parseKerningPairsBinary(blockReader, blockLen)
      [] OTHER                         -> [rd |-> blockReader, err |-> NoErr, val |-> << >>]

\* AssignBlock with a later pages, chars or kerning block appended to the
\* sequence the Font holds
AssignBlock_Appending(fnt, blockType, val) ==
    CASE blockType = blockInfo         -> [fnt EXCEPT !.Info = val]
      [] blockType = blockCommon       -> [fnt EXCEPT !.Common = val]
      [] blockType = blockPages        -> [fnt EXCEPT !.Pages = @ \o val]
      [] blockType = blockChars        -> [fnt EXCEPT !.Chars = @ \o val]
      [] blockType = blockKerningPairs -> [fnt EXCEPT !.Kernings = @ \o val]
      [] OTHER                         -> fnt

\* The assignments of parseBlockBinary's switch: fnt.Info = *info, ...
AssignBlock(fnt, blockType, val) ==
    CASE blockType = blockInfo         -> [fnt EXCEPT !.Info = val]
      [] blockType = blockCommon       -> [fnt EXCEPT !.Common = val]
      [] blockType = blockPages        -> [fnt EXCEPT !.Pages = val]
      [] blockType = blockChars        -> [fnt EXCEPT !.Chars = val]
      [] blockType = blockKerningPairs -> [fnt EXCEPT !.Kernings = val]
      [] OTHER                         -> fnt

\* The end of parseBlockBinary: frd is the file Reader after the body was
\* read through the block Reader (fileReader.Index += blockReader.Index)
finishBlock(fnt, frd, blockType, blockLen, body) ==
    IF body.err # NoErr
    THEN [fnt |-> fnt, rd |-> frd,
          err |-> BinaryParseError(frd.Index, blockType, blockLen, body.err)]
    ELSE [fnt |-> AssignBlock(fnt, blockType, body.val), rd |-> frd, err |-> NilError]

parseBlockWithLength(fnt, frd, blockType, blockLen) ==
    With(parseBlockBody(blockType, NewReader(frd.Src), blockLen),
      LAMBDA body :
        finishBlock(fnt, [frd EXCEPT !.Src = body.rd.Src, !.Index = @ + body.rd.Index],
                    blockType, blockLen, body))

\* The error parseBlockBinary's deferred function builds before a body is read
BlockError(fnt, frd, blockType, cause) ==
    [fnt |-> fnt, rd |-> frd, err |-> BinaryParseError(frd.Index, blockType, 0, cause)]

parseBlockBinary(fnt, fileReader) ==
    With(ReadField(fileReader, "UInt8"),
      LAMBDA id :
        IF ~id.ok
        THEN BlockError(fnt, id.rd, blockHeader,
                        IF id.rd.Err = EOF THEN EOF
                        ELSE "expected one byte for block type identifier")
        ELSE IF ~ValidBlockId(id.v)
        THEN BlockError(fnt, id.rd, blockHeader, "expected block type to be one of 1,2,3,4,5")
        ELSE With(ReadField(id.rd, "UInt32"),
               LAMBDA ln :
                 IF ~ln.ok
                 THEN BlockError(fnt, ln.rd, id.v, "expected four bytes for block length")
                 ELSE parseBlockWithLength(fnt, ln.rd, id.v, ln.v)))

------------------------------------------------------------------------
\* internal/binary: Writer

WriteFailed == "write failed"

\* binary.Writer{Dst: dst}.  Dst holds the bytes the destination has taken,
\* calls counts the calls of Dst.Write; the destination fails its call number
\* failAt (0: it never fails) after taking at most `taken` bytes of it, and
\* would take every later call again.
NewWriter == [Dst |-> << >>, Err |-> NoErr, calls |-> 0, failAt |-> 0, taken |-> 0]

FailingWriter(k, t) == [NewWriter EXCEPT !.failAt = k, !.taken = t]

\* Writer.Write without the check of bw.Err at its head
Write_IgnoringErr(bw, p) ==
    IF bw.calls + 1 = bw.failAt
    THEN [bw EXCEPT !.calls = @ + 1, !.Err = WriteFailed,
                    !.Dst = @ \o SubSeq(p, 1, Min(bw.taken, Len(p)))]
    ELSE [bw EXCEPT !.calls = @ + 1, !.Dst = @ \o p]

Write(bw, p) ==
    IF bw.Err # NoErr THEN bw
    ELSE IF bw.calls + 1 = bw.failAt
    THEN [bw EXCEPT !.calls = @ + 1, !.Err = WriteFailed,
                    !.Dst = @ \o SubSeq(p, 1, Min(bw.taken, Len(p)))]
    ELSE [bw EXCEPT !.calls = @ + 1, !.Dst = @ \o p]

WriteString(bw, s) == Write(bw, s)

WriteNullString(bw, s) == Write(bw, Append(s, 0))

WriteBits(bw, b) == Write(bw, << b >>)

WriteUInt8(bw, i) == Write(bw, << i >>)

WriteInt16(bw, i) == Write(bw, PutUint16(ToUint16(i)))

WriteUInt16(bw, i) == Write(bw, PutUint16(i))

WriteInt32(bw, i) == Write(bw, PutUint32(i))

WriteUInt32(bw, i) == Write(bw, PutUint32(i))

\* A run of primitive writes in program order; each item names the Writer
\* method and carries the value already converted to the method's type
WriteItem(bw, item) ==
    CASE item.m = "String"     -> WriteString(bw, item.v)
      [] item.m = "NullString" -> WriteNullString(bw, item.v)
      [] item.m = "Bits"       -> WriteBits(bw, item.v)
      [] item.m = "UInt8"      -> WriteUInt8(bw, item.v)
      [] item.m = "Int16"      -> WriteInt16(bw, item.v)
      [] item.m = "UInt16"     -> WriteUInt16(bw, item.v)
      [] item.m = "Int32"      -> WriteInt32(bw, item.v)
      [] item.m = "UInt32"     -> WriteUInt32(bw, item.v)

RECURSIVE WriteItems(_, _)
WriteItems(bw, items) ==
    IF Len(items) = 0 THEN bw
    ELSE WriteItems(WriteItem(bw, Head(items)), Tail(items))

W(m, v) == [m |-> m, v |-> v]

------------------------------------------------------------------------
\* Binary codec: serialize

\* The flags byte of the info block: each flag shifted to its bit and or-ed
PackInfoFlags(i) ==
    BoolByte(i.Smooth) * 128 + BoolByte(i.Unicode) * 64 + BoolByte(i.Italic) * 32
        + BoolByte(i.Bold) * 16

\* The charset byte: uint8 of the looked-up value, 0 when nothing is found
CharsetByte(charset) ==
    With(LookupCharsetValue(charset),
         LAMBDA c : IF c.found THEN ToUint8(c.value) ELSE 0)

serializeInfoBlockBinary(fnt, bw) ==
    LET i == fnt.Info
    IN  WriteItems(bw,
          << W("UInt8", blockInfo),
             W("Int32", 14 + Len(i.Face) + 1),
             W("Int16", ToInt16(i.Size)),
             W("Bits", PackInfoFlags(i)),
             W("UInt8", CharsetByte(i.Charset)),
             W("UInt16", ToUint16(i.StretchH)),
             W("UInt8", ToUint8(i.AA)),
             W("UInt8", ToUint8(i.Padding.Up)),
             W("UInt8", ToUint8(i.Padding.Right)),
             W("UInt8", ToUint8(i.Padding.Down)),
             W("UInt8", ToUint8(i.Padding.Left)),
             W("UInt8", ToUint8(i.Spacing.Horizontal)),
             W("UInt8", ToUint8(i.Spacing.Vertical)),
             W("UInt8", ToUint8(i.Outline)),
             W("NullString", i.Face) >>)

serializeCommonBlockBinary(fnt, bw) ==
    LET c == fnt.Common
    IN  WriteItems(bw,
          << W("UInt8", blockCommon),
             W("Int32", 15),
             W("Int16", ToInt16(c.LineHeight)),
             W("Int16", ToInt16(c.Base)),
             W("Int16", ToInt16(c.ScaleW)),
             W("Int16", ToInt16(c.ScaleH)),
             W("Int16", ToInt16(c.Pages)),
             W("Bits", BoolByte(c.Packed)),
             W("UInt8", ToUint8(c.AlphaChannel)),
             W("UInt8", ToUint8(c.RedChannel)),
             W("UInt8", ToUint8(c.GreenChannel)),
             W("UInt8", ToUint8(c.BlueChannel)) >>)

\* The first loop of serializePagesBlockBinary: the largest len(p.File)
RECURSIVE MaxNameLen(_)
MaxNameLen(pages) ==
    IF Len(pages) = 0 THEN 0
    ELSE LET rest == MaxNameLen(Tail(pages))
         IN  IF Len(Head(pages).File) > rest THEN Len(Head(pages).File) ELSE rest

\* fmt.Sprintf("%-*s", nameLen, p.File)
PadPageName(file, nameLen) == PadRight(file, nameLen)

serializePagesBlockBinary(fnt, bw) ==
    LET nameLen == MaxNameLen(fnt.Pages)
    IN  WriteItems(bw,
          << W("UInt8", blockPages),
             W("Int32", (nameLen + 1) * Len(fnt.Pages)) >>
          \o [k \in 1..Len(fnt.Pages) |->
                W("NullString", PadPageName(fnt.Pages[k].File, nameLen))])

CharItems(c) ==
    << W("UInt32", c.Id),
       W("UInt16", ToUint16(c.X)),
       W("UInt16", ToUint16(c.Y)),
       W("UInt16", ToUint16(c.Width)),
       W("UInt16", ToUint16(c.Height)),
       W("Int16", ToInt16(c.XOffset)),
       W("Int16", ToInt16(c.YOffset)),
       W("Int16", ToInt16(c.XAdvance)),
       W("UInt8", ToUint8(c.Page)),
       W("UInt8", ToUint8(c.Channel)) >>

RECURSIVE Flatten(_)
Flatten(ss) == IF Len(ss) = 0 THEN << >> ELSE Head(ss) \o Flatten(Tail(ss))

serializeCharsBlockBinary(fnt, bw) ==
    WriteItems(bw,
      << W("UInt8", blockChars),
         W("Int32", 20 * Len(fnt.Chars)) >>
      \o Flatten([k \in 1..Len(fnt.Chars) |-> CharItems(fnt.Chars[k])]))

KerningItems(k) ==
    << W("UInt32", k.First),
       W("UInt32", k.Second),
       W("Int16", ToInt16(k.Amount)) >>

serializeKerningsBlockBinary(fnt, bw) ==
    WriteItems(bw,
      << W("UInt8", blockKerningPairs),
         W("Int32", 10 * Len(fnt.Kernings)) >>
      \o Flatten([k \in 1..Len(fnt.Kernings) |-> KerningItems(fnt.Kernings[k])]))

\* The two writes that open SerializeBinary
serializeHeaderBinary(bw) ==
    WriteItems(bw, << W("String", Magic), W("UInt8", SupportedVersion) >>)

------------------------------------------------------------------------
\* Text, as the text codec sees it

\* The printable ASCII characters in code order: from the space (32) to the
\* underscore (95), and from a (97) to the tilde (126)
AsciiLow == " !\"#$%&'()*+,-./0123456789:;<=>?@ABCDEFGHIJKLMNOPQRSTUVWXYZ[\\]^_"

AsciiHigh == "abcdefghijklmnopqrstuvwxyz{|}~"

\* The byte of one of these characters
Ord(c) ==
    IF \E i \in 1..Len(AsciiLow) : SubSeq(AsciiLow, i, i) = c
    THEN 31 + CHOOSE i \in 1..Len(AsciiLow) : SubSeq(AsciiLow, i, i) = c
    ELSE 96 + CHOOSE i \in 1..Len(AsciiHigh) : SubSeq(AsciiHigh, i, i) = c

\* The bytes of a string literal made of these characters
B(s) == [i \in 1..Len(s) |-> Ord(SubSeq(s, i, i))]

\* The character of a byte, every other byte shown as "?" (only attribute
\* keys are turned into strings, and a key with such a byte is none the codec
\* looks for)
Chr(b) ==
    IF b >= 32 /\ b <= 95 THEN SubSeq(AsciiLow, b - 31, b - 31)
    ELSE IF b >= 97 /\ b <= 126 THEN SubSeq(AsciiHigh, b - 96, b - 96)
    ELSE "?"

RECURSIVE Str(_)
Str(b) == IF Len(b) = 0 THEN "" ELSE Chr(b[1]) \o Str(Tail(b))

\* The index of the first byte c in s, 0 when there is none
IndexByte(s, c) ==
    IF \E i \in 1..Len(s) : s[i] = c
    THEN CHOOSE i \in 1..Len(s) : s[i] = c /\ \A j \in 1..(i - 1) : s[j] # c
    ELSE 0

\* The number of bytes c in s
CountByte(s, c) == Cardinality({i \in 1..Len(s) : s[i] = c})

\* s from index i on
From(s, i) == SubSeq(s, i, Len(s))

\* unicode.IsSpace on ASCII: \t \n \v \f \r and the space
IsSpace(c) == c \in {9, 10, 11, 12, 13, 32}

\* strings.Fields: the maximal runs of non-space bytes, in order
FieldStarts(s) ==
    {i \in 1..Len(s) : ~IsSpace(s[i]) /\ (i = 1 \/ IsSpace(s[i - 1]))}

FieldEnd(s, i) ==
    CHOOSE j \in i..Len(s) :
        /\ j = Len(s) \/ IsSpace(s[j + 1])
        /\ \A k \in i..j : ~IsSpace(s[k])

NthOf(S, n) == CHOOSE i \in S : Cardinality({j \in S : j < i}) = n - 1

Fields(s) ==
    [n \in 1..Cardinality(FieldStarts(s)) |->
        SubSeq(s, NthOf(FieldStarts(s), n), FieldEnd(s, NthOf(FieldStarts(s), n)))]

\* strings.SplitN(s, sep, n) for a one-byte separator: at most n parts, the
\* last one the unsplit rest
RECURSIVE SplitN(_, _, _)
SplitN(s, sep, n) ==
    IF n <= 1 \/ IndexByte(s, sep) = 0 THEN << s >>
    ELSE << SubSeq(s, 1, IndexByte(s, sep) - 1) >>
         \o SplitN(From(s, IndexByte(s, sep) + 1), sep, n - 1)

\* atoi of bmf.go: the number, 0 when a is no number
atoi(a) == IF Atoi(a).ok THEN Atoi(a).value ELSE 0

parsePadding(s) ==
    With(SplitN(s, 44, 4) \o << B("0"), B("0"), B("0"), B("0") >>,
         LAMBDA v : [Up |-> atoi(v[1]), Right |-> atoi(v[2]),
                     Down |-> atoi(v[3]), Left |-> atoi(v[4])])

parseSpacing(s) ==
    With(SplitN(s, 44, 4) \o << B("0"), B("0") >>,
         LAMBDA v : [Horizontal |-> atoi(v[1]), Vertical |-> atoi(v[2])])

------------------------------------------------------------------------
\* Text codec: parse

\* A Go map without entries
EmptyMap == [k \in {} |-> 0]

\* m[k] = v
MapSet(m, k, v) == (k :> v) @@ m

TagError(msg) == [name |-> << >>, values |-> EmptyMap, strs |-> << >>, err |-> msg]

\* The first loop of parseTagText: the text outside double quotes, every
\* opening quote kept, is collected in stripped and the text between an opening
\* and the next quote in strs; an opening quote without a next one is an error
RECURSIVE stripQuoted(_, _, _)
stripQuoted(rest, stripped, strs) ==
    IF IndexByte(rest, 34) = 0
    THEN [stripped |-> stripped \o rest, strs |-> strs, err |-> NoErr]
    ELSE IF IndexByte(From(rest, IndexByte(rest, 34) + 1), 34) = 0
    THEN [stripped |-> stripped, strs |-> strs, err |-> "expected \""]
    ELSE stripQuoted(
           From(rest, IndexByte(rest, 34)
                        + IndexByte(From(rest, IndexByte(rest, 34) + 1), 34) + 1),
           stripped \o SubSeq(rest, 1, IndexByte(rest, 34)),
           Append(strs, SubSeq(rest, IndexByte(rest, 34) + 1,
                               IndexByte(rest, 34)
                                 + IndexByte(From(rest, IndexByte(rest, 34) + 1), 34) - 1)))

\* One key=value field of the second loop: acc holds values, strs and strIdx
tagField(acc, key, value) ==
    IF value = << 34 >>
    THEN [acc EXCEPT !.values = MapSet(@, Str(key), acc.strIdx), !.strIdx = @ + 1]
    ELSE IF Atoi(value).ok
    THEN [acc EXCEPT !.values = MapSet(@, Str(key), Atoi(value).value)]
    ELSE [acc EXCEPT !.values = MapSet(@, Str(key), Len(acc.strs)),
                     !.strs = Append(@, value)]

\* The second loop of parseTagText from field i on
RECURSIVE tagFields(_, _, _)
tagFields(fields, i, acc) ==
    IF i > Len(fields)
    THEN [name |-> fields[1], values |-> acc.values, strs |-> acc.strs, err |-> NoErr]
    ELSE IF CountByte(fields[i], 61) # 1 THEN TagError("expected key-value pair")
    ELSE tagFields(fields, i + 1,
           tagField(acc, SubSeq(fields[i], 1, IndexByte(fields[i], 61) - 1),
                    From(fields[i], IndexByte(fields[i], 61) + 1)))

\* parseTagFields with a line without fields taken as a line to skip
parseTagFields_BlankLineSkipped(fields, strs) ==
    IF Len(fields) = 0
    THEN [name |-> << >>, values |-> EmptyMap, strs |-> strs, err |-> NoErr]
    ELSE tagFields(fields, 2, [values |-> EmptyMap, strs |-> strs, strIdx |-> 0])

\* The end of parseTagText: strings.Fields(stripped) and the second loop
parseTagFields(fields, strs) ==
    IF Len(fields) = 0 THEN TagError("expected non empty tag")
    ELSE tagFields(fields, 2, [values |-> EmptyMap, strs |-> strs, strIdx |-> 0])

parseTagText(line) ==
    With(stripQuoted(line, << >>, << >>),
         LAMBDA q : IF q.err # NoErr THEN TagError(q.err)
                    ELSE parseTagFields(Fields(q.stripped), q.strs))

\* attribs[key] of an attribute that holds a number, 0 without the key
IntAttr(attribs, key) == IF key \in DOMAIN attribs THEN attribs[key] ELSE 0

\* strs[attribs[key]] of an attribute that holds a string, "" without the key
StrAttr(attribs, strs, key) ==
    IF key \in DOMAIN attribs THEN strs[attribs[key] + 1] ELSE << >>

\* An index expression strs[v] of the keys is out of range: the Go runtime
\* panics
IndexPanics(attribs, strs, keys) ==
    \E k \in keys \cap DOMAIN attribs : attribs[k] < 0 \/ attribs[k] >= Len(strs)

Parsed(panics, val) == [panic |-> panics, val |-> val]

parsePageText(attribs, strs) ==
    IF IndexPanics(attribs, strs, {"file"}) THEN Parsed(TRUE, << >>)
    ELSE Parsed(FALSE, [Id |-> IntAttr(attribs, "id"), File |-> StrAttr(attribs, strs, "file")])

parseInfoText(attribs, strs) ==
    IF IndexPanics(attribs, strs, {"face", "charset", "padding", "spacing"})
    THEN Parsed(TRUE, << >>)
    ELSE Parsed(FALSE,
           [ Face     |-> StrAttr(attribs, strs, "face"),
             Size     |-> IntAttr(attribs, "size"),
             Bold     |-> Bool(IntAttr(attribs, "bold")),
             Italic   |-> Bool(IntAttr(attribs, "italic")),
             Charset  |-> StrAttr(attribs, strs, "charset"),
             Unicode  |-> Bool(IntAttr(attribs, "unicode")),
             StretchH |-> IntAttr(attribs, "stretchH"),
             Smooth   |-> Bool(IntAttr(attribs, "smooth")),
             AA       |-> IntAttr(attribs, "aa"),
             Padding  |-> IF "padding" \in DOMAIN attribs
                          THEN parsePadding(StrAttr(attribs, strs, "padding"))
                          ELSE ZeroInfo.Padding,
             Spacing  |-> IF "spacing" \in DOMAIN attribs
                          THEN parseSpacing(StrAttr(attribs, strs, "spacing"))
                          ELSE ZeroInfo.Spacing,
             Outline  |-> IntAttr(attribs, "outline") ])

parseCharText(attribs) ==
    [ Id |-> IntAttr(attribs, "id"), X |-> IntAttr(attribs, "x"), Y |-> IntAttr(attribs, "y"),
      Width |-> IntAttr(attribs, "width"), Height |-> IntAttr(attribs, "height"),
      XOffset |-> IntAttr(attribs, "xoffset"), YOffset |-> IntAttr(attribs, "yoffset"),
      XAdvance |-> IntAttr(attribs, "xadvance"), Page |-> IntAttr(attribs, "page"),
      Channel |-> IntAttr(attribs, "chnl") ]

parseCommonText(attribs) ==
    [ LineHeight |-> IntAttr(attribs, "lineHeight"), Base |-> IntAttr(attribs, "base"),
      ScaleW |-> IntAttr(attribs, "scaleW"), ScaleH |-> IntAttr(attribs, "scaleH"),
      Pages |-> IntAttr(attribs, "pages"), Packed |-> Bool(IntAttr(attribs, "packed")),
      AlphaChannel |-> IntAttr(attribs, "alphaChnl"),
      RedChannel |-> IntAttr(attribs, "redChnl"),
      GreenChannel |-> IntAttr(attribs, "greenChnl"),
      BlueChannel |-> IntAttr(attribs, "blueChnl") ]

parseKerningPairText(attribs) ==
    [ First |-> IntAttr(attribs, "first"), Second |-> IntAttr(attribs, "second"),
      Amount |-> IntAttr(attribs, "amount") ]

\* The loops "for k, v := range attribs" of the five functions, one iteration
\* at a time: the case of the switch for key k applied to the struct built so
\* far.  An iteration after an index panic is never run.
InRange(v, strs) == v >= 0 /\ v < Len(strs)

\* pageAttr with a file case that also clears the Id
pageAttr_FileClearsId(page, k, v, strs) ==
    CASE k = "id"   -> Parsed(FALSE, [page EXCEPT !.Id = v])
      [] k = "file" -> IF InRange(v, strs)
                       THEN Parsed(FALSE, [page EXCEPT !.File = strs[v + 1], !.Id = 0])
                       ELSE Parsed(TRUE, << >>)
      [] OTHER      -> Parsed(FALSE, page)

pageAttr(page, k, v, strs) ==
    CASE k = "id"   -> Parsed(FALSE, [page EXCEPT !.Id = v])
      [] k = "file" -> IF InRange(v, strs) THEN Parsed(FALSE, [page EXCEPT !.File = strs[v + 1]])
                       ELSE Parsed(TRUE, << >>)
      [] OTHER      -> Parsed(FALSE, page)

infoAttr(info, k, v, strs) ==
    CASE k = "size"     -> Parsed(FALSE, [info EXCEPT !.Size = v])
      [] k = "face"     -> IF InRange(v, strs) THEN Parsed(FALSE, [info EXCEPT !.Face = strs[v + 1]])
                           ELSE Parsed(TRUE, << >>)
      [] k = "bold"     -> Parsed(FALSE, [info EXCEPT !.Bold = Bool(v)])
      [] k = "italic"   -> Parsed(FALSE, [info EXCEPT !.Italic = Bool(v)])
      [] k = "charset"  -> IF InRange(v, strs)
                           THEN Parsed(FALSE, [info EXCEPT !.Charset = strs[v + 1]])
                           ELSE Parsed(TRUE, << >>)
      [] k = "unicode"  -> Parsed(FALSE, [info EXCEPT !.Unicode = Bool(v)])
      [] k = "stretchH" -> Parsed(FALSE, [info EXCEPT !.StretchH = v])
      [] k = "smooth"   -> Parsed(FALSE, [info EXCEPT !.Smooth = Bool(v)])
      [] k = "aa"       -> Parsed(FALSE, [info EXCEPT !.AA = v])
      [] k = "padding"  -> IF InRange(v, strs)
                           THEN Parsed(FALSE, [info EXCEPT !.Padding = parsePadding(strs[v + 1])])
                           ELSE Parsed(TRUE, << >>)
      [] k = "spacing"  -> IF InRange(v, strs)
                           THEN Parsed(FALSE, [info EXCEPT !.Spacing = parseSpacing(strs[v + 1])])
                           ELSE Parsed(TRUE, << >>)
      [] k = "outline"  -> Parsed(FALSE, [info EXCEPT !.Outline = v])
      [] OTHER          -> Parsed(FALSE, info)

charAttr(char, k, v) ==
    CASE k = "id"       -> [char EXCEPT !.Id = v]
      [] k = "x"        -> [char EXCEPT !.X = v]
      [] k = "y"        -> [char EXCEPT !.Y = v]
      [] k = "width"    -> [char EXCEPT !.Width = v]
      [] k = "height"   -> [char EXCEPT !.Height = v]
      [] k = "xoffset"  -> [char EXCEPT !.XOffset = v]
      [] k = "yoffset"  -> [char EXCEPT !.YOffset = v]
      [] k = "xadvance" -> [char EXCEPT !.XAdvance = v]
      [] k = "page"     -> [char EXCEPT !.Page = v]
      [] k = "chnl"     -> [char EXCEPT !.Channel = v]
      [] OTHER          -> char

commonAttr(common, k, v) ==
    CASE k = "lineHeight" -> [common EXCEPT !.LineHeight = v]
      [] k = "base"       -> [common EXCEPT !.Base = v]
      [] k = "scaleW"     -> [common EXCEPT !.ScaleW = v]
      [] k = "scaleH"     -> [common EXCEPT !.ScaleH = v]
      [] k = "pages"      -> [common EXCEPT !.Pages = v]
      [] k = "packed"     -> [common EXCEPT !.Packed = Bool(v)]
      [] k = "alphaChnl"  -> [common EXCEPT !.AlphaChannel = v]
      [] k = "redChnl"    -> [common EXCEPT !.RedChannel = v]
      [] k = "greenChnl"  -> [common EXCEPT !.GreenChannel = v]
      [] k = "blueChnl"   -> [common EXCEPT !.BlueChannel = v]
      [] OTHER            -> common

kerningAttr(kern, k, v) ==
    CASE k = "first"  -> [kern EXCEPT !.First = v]
      [] k = "second" -> [kern EXCEPT !.Second = v]
      [] k = "amount" -> [kern EXCEPT !.Amount = v]
      [] OTHER        -> kern

\* One iteration of the loop of the function that ParseText calls for the tag
\* name
attrCase(name, acc, k, v, strs) ==
    IF acc.panic THEN acc
    ELSE CASE name = "info"    -> infoAttr(acc.val, k, v, strs)
           [] name = "page"    -> pageAttr(acc.val, k, v, strs)
           [] name = "char"    -> Parsed(FALSE, charAttr(acc.val, k, v))
           [] name = "common"  -> Parsed(FALSE, commonAttr(acc.val, k, v))
           [] name = "kerning" -> Parsed(FALSE, kerningAttr(acc.val, k, v))

\* The same with the struct built so far evaluated once
rangeAttr(name, acc, k, v, strs) ==
    CHOOSE r \in {attrCase(name, a, k, v, strs) : a \in {acc}} : TRUE

\* The struct a function starts from: Page{}, Info{}, Char{}, Common{}, Kerning{}
ZeroOf(name) ==
    CASE name = "info"    -> ZeroInfo
      [] name = "page"    -> [Id |-> 0, File |-> << >>]
      [] name = "char"    -> parseCharText(EmptyMap)
      [] name = "common"  -> ZeroCommon
      [] name = "kerning" -> [First |-> 0, Second |-> 0, Amount |-> 0]

\* The whole loop with the keys of attribs visited in the order given
RECURSIVE rangeAttribs(_, _, _, _, _)
rangeAttribs(name, order, attribs, strs, acc) ==
    IF Len(order) = 0 THEN acc
    ELSE rangeAttribs(name, Tail(order), attribs, strs,
                      rangeAttr(name, acc, order[1], attribs[order[1]], strs))

\* A switch that takes every tag for char
applyTagText_EveryTagIsChar(f, t) ==
    Parsed(FALSE, [f EXCEPT !.Chars = Append(@, parseCharText(t.values))])

\* The switch of ParseText on the tag of a parsed line: the Font after the
\* line, or a panic of the sub-parser; a tag outside the five changes nothing
applyTagText(f, t) ==
    CASE t.name = B("info") ->
           With(parseInfoText(t.values, t.strs),
                LAMBDA p : Parsed(p.panic, IF p.panic THEN f ELSE [f EXCEPT !.Info = p.val]))
      [] t.name = B("char") ->
           Parsed(FALSE, [f EXCEPT !.Chars = Append(@, parseCharText(t.values))])
      [] t.name = B("common") ->
           Parsed(FALSE, [f EXCEPT !.Common = parseCommonText(t.values)])
      [] t.name = B("page") ->
           With(parsePageText(t.values, t.strs),
                LAMBDA p : Parsed(p.panic,
                                  IF p.panic THEN f ELSE [f EXCEPT !.Pages = Append(@, p.val)]))
      [] t.name = B("kerning") ->
           Parsed(FALSE, [f EXCEPT !.Kernings = Append(@, parseKerningPairText(t.values))])
      [] OTHER -> Parsed(FALSE, f)

\* The error ParseText returns: nil, or the deferred TextParseError
NilTextError == [Err |-> NoErr, Line |-> << >>, LineNumber |-> 0]

\* A TextParseError that counts the lines from 0
TextParseError_ZeroBased(line, lineNr, err) ==
    [Err |-> err, Line |-> line, LineNumber |-> lineNr - 1]

TextParseError(line, lineNr, err) == [Err |-> err, Line |-> line, LineNumber |-> lineNr]

\* bufio.ScanLines without the trailing \r of a line
dropCR(s) == IF Len(s) > 0 /\ s[Len(s)] = 13 THEN SubSeq(s, 1, Len(s) - 1) ELSE s

\* The tokens bufio.Scanner delivers for the bytes of its source: the lines
\* without their line ends, a last line without line end when it is not empty
RECURSIVE ScanLines(_)
ScanLines(s) ==
    IF Len(s) = 0 THEN << >>
    ELSE IF IndexByte(s, 10) = 0 THEN << dropCR(s) >>
    ELSE << dropCR(SubSeq(s, 1, IndexByte(s, 10) - 1)) >>
         \o ScanLines(From(s, IndexByte(s, 10) + 1))

\* bufio.NewScanner(src) on a source that delivers the bytes and then ends
\* with io.EOF (err = "nil") or fails with an error of its own: the Scanner
\* delivers the lines of the bytes it got and keeps the error for sc.Err()
NewScanner(bytes, err) == [lines |-> ScanLines(bytes), err |-> err]

------------------------------------------------------------------------
\* Text codec: serialize

HexDigit(n) == IF n < 10 THEN 48 + n ELSE 87 + n

\* What %q writes for one byte of a string of printable runes: a double quote
\* and a backslash get a backslash in front, a control byte its escape
QuoteByte(c) ==
    CASE c = 34 -> << 92, 34 >>
      [] c = 92 -> << 92, 92 >>
      [] c = 7  -> << 92, 97 >>
      [] c = 8  -> << 92, 98 >>
      [] c = 12 -> << 92, 102 >>
      [] c = 10 -> << 92, 110 >>
      [] c = 13 -> << 92, 114 >>
      [] c = 9  -> << 92, 116 >>
      [] c = 11 -> << 92, 118 >>
      [] c < 32 \/ c = 127 -> << 92, 120, HexDigit(c \div 16), HexDigit(c % 16) >>
      [] OTHER -> << c >>

\* fmt's %q of a string: strconv.Quote
Quote(s) == << 34 >> \o Flatten([i \in 1..Len(s) |-> QuoteByte(s[i])]) \o << 34 >>

serializeInfoBlockText(f) ==
    With(f.Info, LAMBDA i :
        B("info face=") \o Quote(i.Face) \o B(" size=") \o Itoa(i.Size)
        \o B(" bold=") \o Itoa(BoolByte(i.Bold)) \o B(" italic=") \o Itoa(BoolByte(i.Italic))
        \o B(" charset=") \o Quote(i.Charset) \o B(" unicode=") \o Itoa(BoolByte(i.Unicode))
        \o B(" stretchH=") \o Itoa(i.StretchH) \o B(" smooth=") \o Itoa(BoolByte(i.Smooth))
        \o B(" aa=") \o Itoa(i.AA) \o B(" ")
        \o B("padding=") \o Itoa(i.Padding.Up) \o << 44 >> \o Itoa(i.Padding.Right)
        \o << 44 >> \o Itoa(i.Padding.Down) \o << 44 >> \o Itoa(i.Padding.Left)
        \o B(" spacing=") \o Itoa(i.Spacing.Horizontal) \o << 44 >> \o Itoa(i.Spacing.Vertical)
        \o B(" outline=") \o Itoa(i.Outline) \o << 10 >>)

serializeCommonBlockText(f) ==
    With(f.Common, LAMBDA c :
        B("common lineHeight=") \o Itoa(c.LineHeight) \o B(" base=") \o Itoa(c.Base)
        \o B(" scaleW=") \o Itoa(c.ScaleW) \o B(" scaleH=") \o Itoa(c.ScaleH)
        \o B(" pages=") \o Itoa(c.Pages) \o B(" packed=") \o Itoa(BoolByte(c.Packed))
        \o B(" ")
        \o B("alphaChnl=") \o Itoa(c.AlphaChannel) \o B(" redChnl=") \o Itoa(c.RedChannel)
        \o B(" greenChnl=") \o Itoa(c.GreenChannel) \o B(" blueChnl=") \o Itoa(c.BlueChannel)
        \o << 10 >>)

pageLineText(p) ==
    B("page id=") \o Itoa(p.Id) \o B(" file=") \o Quote(p.File) \o << 10 >>

serializePagesBlockText(f) ==
    Flatten([i \in 1..Len(f.Pages) |-> pageLineText(f.Pages[i])])

charLineText(c) ==
    B("char id=") \o Itoa(c.Id) \o B(" x=") \o Itoa(c.X) \o B(" y=") \o Itoa(c.Y)
    \o B(" width=") \o Itoa(c.Width) \o B(" height=") \o Itoa(c.Height) \o B(" ")
    \o B("xoffset=") \o Itoa(c.XOffset) \o B(" yoffset=") \o Itoa(c.YOffset)
    \o B(" xadvance=") \o Itoa(c.XAdvance) \o B(" page=") \o Itoa(c.Page)
    \o B(" chnl=") \o Itoa(c.Channel) \o << 10 >>

serializeCharsBlockText(f) ==
    B("chars count=") \o Itoa(Len(f.Chars)) \o << 10 >>
    \o Flatten([i \in 1..Len(f.Chars) |-> charLineText(f.Chars[i])])

kerningLineText(k) ==
    B("kerning first=") \o Itoa(k.First) \o B(" second=") \o Itoa(k.Second)
    \o B(" amount=") \o Itoa(k.Amount) \o << 10 >>

serializeKerningsBlockText(f) ==
    B("kernings count=") \o Itoa(Len(f.Kernings)) \o << 10 >>
    \o Flatten([i \in 1..Len(f.Kernings) |-> kerningLineText(f.Kernings[i])])

------------------------------------------------------------------------
\* XML codec: xml.Unmarshal into a Font by the xml tags of the structs.  An
\* element is [name, attrs, children], attrs a sequence of [name, value].

Element(name, attrs, children) == [name |-> name, attrs |-> attrs, children |-> children]

Attr(name, value) == [name |-> name, value |-> value]

\* strings.TrimSpace on ASCII
TrimSpace(s) ==
    IF \A i \in 1..Len(s) : IsSpace(s[i]) THEN << >>
    ELSE SubSeq(s, CHOOSE i \in 1..Len(s) : ~IsSpace(s[i]) /\ \A j \in 1..(i - 1) : IsSpace(s[j]),
                   CHOOSE i \in 1..Len(s) : ~IsSpace(s[i]) /\ \A j \in (i + 1)..Len(s) : IsSpace(s[j]))

\* The values of the attributes of the list with the name, in order
AttrValues(attrs, name) ==
    SelectSeq([i \in 1..Len(attrs) |-> IF attrs[i].name = name THEN << attrs[i].value >> ELSE << >>],
              LAMBDA v : v # << >>)

Decoded(ok, v) == [ok |-> ok, v |-> v]

\* An integer field: the field keeps its value without the attribute, ""
\* gives 0, else strconv.ParseInt of the trimmed value decides; the numbers
\* of the model fit every integer type of the structs
intAttr(attrs, name, old) ==
    With(AttrValues(attrs, name), LAMBDA vs :
        IF Len(vs) = 0 THEN Decoded(TRUE, old)
        ELSE IF Len(vs[Len(vs)][1]) = 0 THEN Decoded(TRUE, 0)
        ELSE Decoded(\A i \in 1..Len(vs) :
                         vs[i][1] = << >> \/ Atoi(TrimSpace(vs[i][1])).ok,
                     Atoi(TrimSpace(vs[Len(vs)][1])).value))

\* A ParseBool that takes "1" for false
ParseBool_OneIsFalse(s) == Decoded(TRUE, FALSE)

\* strconv.ParseBool
ParseBool(s) ==
    IF s \in {B("1"), B("t"), B("T"), B("TRUE"), B("true"), B("True")} THEN Decoded(TRUE, TRUE)
    ELSE IF s \in {B("0"), B("f"), B("F"), B("FALSE"), B("false"), B("False")}
    THEN Decoded(TRUE, FALSE)
    ELSE Decoded(FALSE, FALSE)

\* A BinBool field: a bool without an unmarshaller of its own
boolAttr(attrs, name, old) ==
    With(AttrValues(attrs, name), LAMBDA vs :
        IF Len(vs) = 0 THEN Decoded(TRUE, old)
        ELSE IF Len(vs[Len(vs)][1]) = 0 THEN Decoded(TRUE, FALSE)
        ELSE Decoded(\A i \in 1..Len(vs) :
                         vs[i][1] = << >> \/ ParseBool(TrimSpace(vs[i][1])).ok,
                     ParseBool(TrimSpace(vs[Len(vs)][1])).v))

stringAttr(attrs, name, old) ==
    With(AttrValues(attrs, name), LAMBDA vs : IF Len(vs) = 0 THEN old ELSE vs[Len(vs)][1])

AllOk(ds) == \A i \in 1..Len(ds) : ds[i].ok

unmarshalInfo(old, a) ==
    With(<< intAttr(a, B("size"), old.Size), boolAttr(a, B("bold"), old.Bold),
            boolAttr(a, B("italic"), old.Italic), boolAttr(a, B("unicode"), old.Unicode),
            intAttr(a, B("stretchH"), old.StretchH), boolAttr(a, B("smooth"), old.Smooth),
            intAttr(a, B("aa"), old.AA), intAttr(a, B("outline"), old.Outline) >>,
         LAMBDA d : Decoded(AllOk(d),
           [ Face |-> stringAttr(a, B("face"), old.Face), Size |-> d[1].v, Bold |-> d[2].v,
             Italic |-> d[3].v, Charset |-> stringAttr(a, B("charset"), old.Charset),
             Unicode |-> d[4].v, StretchH |-> d[5].v, Smooth |-> d[6].v, AA |-> d[7].v,
             Padding |-> IF Len(AttrValues(a, B("padding"))) = 0 THEN old.Padding
                         ELSE parsePadding(stringAttr(a, B("padding"), << >>)),
             Spacing |-> IF Len(AttrValues(a, B("spacing"))) = 0 THEN old.Spacing
                         ELSE parseSpacing(stringAttr(a, B("spacing"), << >>)),
             Outline |-> d[8].v ]))

unmarshalCommon(old, a) ==
    With(<< intAttr(a, B("lineHeight"), old.LineHeight), intAttr(a, B("base"), old.Base),
            intAttr(a, B("scaleW"), old.ScaleW), intAttr(a, B("scaleH"), old.ScaleH),
            intAttr(a, B("pages"), old.Pages), boolAttr(a, B("packed"), old.Packed),
            intAttr(a, B("alphaChnl"), old.AlphaChannel),
            intAttr(a, B("redChnl"), old.RedChannel),
            intAttr(a, B("greenChnl"), old.GreenChannel),
            intAttr(a, B("blueChnl"), old.BlueChannel) >>,
         LAMBDA d : Decoded(AllOk(d),
           [ LineHeight |-> d[1].v, Base |-> d[2].v, ScaleW |-> d[3].v, ScaleH |-> d[4].v,
             Pages |-> d[5].v, Packed |-> d[6].v, AlphaChannel |-> d[7].v,
             RedChannel |-> d[8].v, GreenChannel |-> d[9].v, BlueChannel |-> d[10].v ]))

unmarshalPage(a) ==
    With(intAttr(a, B("id"), 0), LAMBDA d :
        Decoded(d.ok, [Id |-> d.v, File |-> stringAttr(a, B("file"), << >>)]))

unmarshalChar(a) ==
    With(<< intAttr(a, B("id"), 0), intAttr(a, B("x"), 0), intAttr(a, B("y"), 0),
            intAttr(a, B("width"), 0), intAttr(a, B("height"), 0),
            intAttr(a, B("xoffset"), 0), intAttr(a, B("yoffset"), 0),
            intAttr(a, B("xadvance"), 0), intAttr(a, B("page"), 0),
            intAttr(a, B("chnl"), 0) >>,
         LAMBDA d : Decoded(AllOk(d),
           [ Id |-> d[1].v, X |-> d[2].v, Y |-> d[3].v, Width |-> d[4].v, Height |-> d[5].v,
             XOffset |-> d[6].v, YOffset |-> d[7].v, XAdvance |-> d[8].v, Page |-> d[9].v,
             Channel |-> d[10].v ]))

unmarshalKerning(a) ==
    With(<< intAttr(a, B("first"), 0), intAttr(a, B("second"), 0),
            intAttr(a, B("amount"), 0) >>,
         LAMBDA d : Decoded(AllOk(d),
           [First |-> d[1].v, Second |-> d[2].v, Amount |-> d[3].v]))

\* The children of the element with the name, decoded one after the other
\* and appended to the slice; the others are skipped
RECURSIVE unmarshalList(_, _, _, _, _)
unmarshalList(old, children, i, name, kind) ==
    IF i > Len(children) THEN Decoded(TRUE, old)
    ELSE IF children[i].name # name THEN unmarshalList(old, children, i + 1, name, kind)
    ELSE With(CASE kind = "page" -> unmarshalPage(children[i].attrs)
                [] kind = "char" -> unmarshalChar(children[i].attrs)
                [] OTHER -> unmarshalKerning(children[i].attrs),
              LAMBDA d : IF ~d.ok THEN Decoded(FALSE, old)
                         ELSE unmarshalList(Append(old, d.v), children, i + 1, name, kind))

\* One child of the root element, decoded into the field whose tag names it
unmarshalChild(f, e) ==
    CASE e.name = B("info") ->
           With(unmarshalInfo(f.Info, e.attrs),
                LAMBDA d : Decoded(d.ok, [f EXCEPT !.Info = d.v]))
      [] e.name = B("common") ->
           With(unmarshalCommon(f.Common, e.attrs),
                LAMBDA d : Decoded(d.ok, [f EXCEPT !.Common = d.v]))
      [] e.name = B("pages") ->
           With(unmarshalList(f.Pages, e.children, 1, B("page"), "page"),
                LAMBDA d : Decoded(d.ok, [f EXCEPT !.Pages = d.v]))
      [] e.name = B("chars") ->
           With(unmarshalList(f.Chars, e.children, 1, B("char"), "char"),
                LAMBDA d : Decoded(d.ok, [f EXCEPT !.Chars = d.v]))
      [] e.name = B("kernings") ->
           With(unmarshalList(f.Kernings, e.children, 1, B("kerning"), "kerning"),
                LAMBDA d : Decoded(d.ok, [f EXCEPT !.Kernings = d.v]))
      [] OTHER -> Decoded(TRUE, f)

RECURSIVE unmarshalChildren(_, _, _)
unmarshalChildren(f, children, i) ==
    IF i > Len(children) THEN Decoded(TRUE, f)
    ELSE With(unmarshalChild(f, children[i]),
              LAMBDA d : IF ~d.ok THEN d ELSE unmarshalChildren(d.v, children, i + 1))

\* xml.Unmarshal(data, fnt) for the document that data holds: a syntax error
\* for data that is no well-formed document, else the root element decoded
\* into the Font; Font has no XMLName, so the root may have any name
Unmarshal(d, f) ==
    IF ~d.wellFormed THEN [fnt |-> f, err |-> "XML syntax error"]
    ELSE With(unmarshalChildren(f, d.root.children, 1), LAMBDA u :
            [fnt |-> u.v, err |-> IF u.ok THEN NoErr ELSE "strconv: invalid syntax"])

\* The error ParseXML returns
XmlError(err) == [Err |-> err]

\* What ParseXML returns for the document
ParseXMLResult(d) ==
    With(Unmarshal(d, ZeroFont), LAMBDA u :
        IF u.err # NoErr THEN [hasFont |-> FALSE, fnt |-> ZeroFont, err |-> XmlError(u.err)]
        ELSE [hasFont |-> TRUE, fnt |-> u.fnt, err |-> XmlError(NoErr)])

------------------------------------------------------------------------
\* Inputs of the model

MaxPrefixBlocks == 1

MaxPages == 2

MaxChars == 2

MaxKernings == 2

SeqsUpTo(S, n) == UNION {[1..k -> S] : k \in 0..n}

\* One block of the binary format: type byte, declared length, body
Block(type, declared, body) == << type >> \o PutUint32(declared) \o body

\* The 14 fixed bytes of an info body followed by the name bytes
InfoBody(size, flags, charset, name) ==
    PutUint16(ToUint16(size)) \o << flags, charset >> \o PutUint16(90)
        \o << 2, 1, 2, 3, 4, 2, 1, 2 >> \o name

InfoBlock(size, flags, charset, name) ==
    Block(blockInfo, 14 + Len(name), InfoBody(size, flags, charset, name))

CommonBody == << 27, 0, 22, 0, 32, 0, 64, 0, 2, 0, 0, 0, 1, 3, 4 >>

\* id -1, x 0, y 26, width 24, height 23, xoffset -3, yoffset 4, xadvance 19,
\* page 1, chnl 15
CharRecA == << 255, 255, 255, 255, 0, 0, 26, 0, 24, 0, 23, 0, 253, 255, 4, 0, 19, 0, 1, 15 >>

\* id 65, x 0, y 0, width 29, height 25, xoffset -6, yoffset 2, xadvance 19,
\* page 0, chnl 15
CharRecB == << 65, 0, 0, 0, 0, 0, 0, 0, 29, 0, 25, 0, 250, 255, 2, 0, 19, 0, 0, 15 >>

\* first 86, second 65, amount -2
KernRecA == << 86, 0, 0, 0, 65, 0, 0, 0, 254, 255 >>

\* first 65, second 84, amount 258
KernRecB == << 65, 0, 0, 0, 84, 0, 0, 0, 2, 1 >>

\* Blocks that follow the layout of their type
GoodBlocks ==
    { InfoBlock(0 - 26, 240, 0, << 65, 114, 0 >>),
      Block(blockCommon, 15, CommonBody),
      Block(blockPages, 4, << 65, 0, 66, 0 >>),
      Block(blockChars, 20, CharRecA),
      Block(blockKerningPairs, 10, KernRecA) }

\* Blocks of every kind, well-formed or not, seen as the last block of an input
LastBlocks ==
    GoodBlocks \cup
    { InfoBlock(7, 0, 1, << 0 >>),
      InfoBlock(7, 143, 77, << 65, 0, 66, 0 >>),
      InfoBlock(7, 0, 7, << 65, 66 >>),
      Block(blockInfo, 14, InfoBody(7, 0, 0, << >>)),
      Block(blockCommon, 14, SubSeq(CommonBody, 1, 14)),
      Block(blockCommon, 16, CommonBody \o << 0 >>),
      Block(blockPages, 0, << >>),
      Block(blockPages, 2, << 65, 0 >>),
      Block(blockPages, 2, << 65, 66 >>),
      Block(blockPages, 2, << 65, 66, 0 >>),
      Block(blockPages, 6, << 65, 66, 0, 67, 32, 0 >>),
      Block(blockPages, 6, << 32, 65, 0, 32, 32, 0 >>),
      Block(blockPages, 8, << 32, 65, 32, 0, 66, 32, 67, 0 >>),
      Block(blockPages, 5, << 65, 0, 66, 67, 0 >>),
      Block(blockPages, 6, << 65, 0, 66, 67, 68, 0 >>),
      Block(blockChars, 0, << >>),
      Block(blockChars, 19, SubSeq(CharRecA, 1, 19)),
      Block(blockChars, 21, CharRecA \o << 0 >>),
      Block(blockChars, 40, CharRecB \o CharRecA),
      Block(blockKerningPairs, 0, << >>),
      Block(blockKerningPairs, 9, SubSeq(KernRecA, 1, 9)),
      Block(blockKerningPairs, 11, KernRecA \o << 0 >>),
      Block(blockKerningPairs, 20, KernRecB \o KernRecA),
      Block(0, 0, << >>),
      Block(6, 0, << >>),
      Block(255, 2, << 65, 0 >>) }

ValidHeader == Magic \o << SupportedVersion >>

\* Complete streams: a valid header, up to MaxPrefixBlocks good blocks and
\* one more block of any kind (or none)
Prefixes == {Flatten(p) : p \in SeqsUpTo(GoodBlocks, MaxPrefixBlocks)}

CompleteInputs ==
    {ValidHeader \o p : p \in Prefixes}
    \cup {ValidHeader \o p \o b : p \in Prefixes, b \in LastBlocks}

\* The same streams cut inside their last block
TruncatedInputs ==
    UNION { {ValidHeader \o p \o SubSeq(b, 1, k) : k \in 1..(Len(b) - 1)} :
            p \in Prefixes, b \in LastBlocks }

\* Inputs whose first four bytes are not "BMF", 3
BadHeaders ==
    { << >>, << 66 >>, << 66, 77 >>, Magic, << 88, 88, 88, 3 >>, << 66, 77, 70, 2 >>,
      << 66, 77, 70, 0 >>, << 66, 77, 71, 3 >>, << 98, 109, 102, 3 >> }

BadHeaderInputs ==
    BadHeaders \cup {h \o b : h \in {h \in BadHeaders : Len(h) = 4}, b \in GoodBlocks}

\* Info blocks with every flags byte and a choice of charset bytes
CharsetBytes == {0, 1, 7, 77, 255}

InfoFlagInputs ==
    {ValidHeader \o InfoBlock(7, flags, cs, << 65, 0 >>) : flags \in 0..255, cs \in CharsetBytes}

Inputs == CompleteInputs \cup TruncatedInputs \cup BadHeaderInputs \cup InfoFlagInputs

\* Fonts handed to SerializeBinary

BaseInfo ==
    [ Face |-> << 65, 114 >>, Size |-> 0 - 26, Bold |-> TRUE, Italic |-> TRUE,
      Charset |-> << >>, Unicode |-> TRUE, StretchH |-> 90, Smooth |-> TRUE, AA |-> 2,
      Padding |-> [Up |-> 1, Right |-> 2, Down |-> 3, Left |-> 4],
      Spacing |-> [Horizontal |-> 2, Vertical |-> 1], Outline |-> 2 ]

BaseCommon ==
    [ LineHeight |-> 27, Base |-> 22, ScaleW |-> 32, ScaleH |-> 64, Pages |-> 2,
      Packed |-> FALSE, AlphaChannel |-> 0, RedChannel |-> 1, GreenChannel |-> 3,
      BlueChannel |-> 4 ]

\* "", "Ansi", "Oem", "Mac", "ansi", "7", "x", "999", "7x"
Charsets ==
    { << >>, << 65, 110, 115, 105 >>, << 79, 101, 109 >>, << 77, 97, 99 >>,
      << 97, 110, 115, 105 >>, << 55 >>, << 120 >>, << 57, 57, 57 >>, << 55, 120 >> }

\* "", "A", "Ar", "A b", " A"
Faces == { << >>, << 65 >>, << 65, 114 >>, << 65, 32, 98 >>, << 32, 65 >> }

Infos ==
    { [BaseInfo EXCEPT !.Smooth = sm, !.Unicode = un, !.Italic = it, !.Bold = bo,
                       !.Charset = cs] :
        sm \in BOOLEAN, un \in BOOLEAN, it \in BOOLEAN, bo \in BOOLEAN, cs \in Charsets }
    \cup { [BaseInfo EXCEPT !.Face = fa, !.Size = sz] :
             fa \in Faces, sz \in {0 - 32768, 0 - 1, 0, 32767, 40000} }
    \cup { [BaseInfo EXCEPT !.AA = aa, !.StretchH = st, !.Outline = aa, !.Padding.Left = aa,
                            !.Spacing.Vertical = aa] :
             aa \in {0, 255, 256}, st \in {0, 65535, 65536} }

Commons ==
    { [BaseCommon EXCEPT !.Packed = pk, !.LineHeight = lh, !.BlueChannel = ch] :
        pk \in BOOLEAN, lh \in {0, 65535, 65536}, ch \in {0, 4, 255} }

\* "", "A", "BC", " A", "A ", "e-acute" (two bytes, one rune)
PageNames == { << >>, << 65 >>, << 66, 67 >>, << 32, 65 >>, << 65, 32 >>, << 195, 169 >> }

\* Page lists whose ids are the positions, and two whose ids are not
PageLists ==
    { [k \in 1..Len(names) |-> [Id |-> k - 1, File |-> names[k]]] :
        names \in SeqsUpTo(PageNames, MaxPages) }
    \cup { << [Id |-> 5, File |-> << 65 >>] >>,
           << [Id |-> 1, File |-> << 65 >>], [Id |-> 0, File |-> << 66 >>] >> }

BasePages == << [Id |-> 0, File |-> << 65, 48 >>], [Id |-> 1, File |-> << 65, 49 >>] >>

CharA ==
    [ Id |-> 0 - 1, X |-> 0, Y |-> 26, Width |-> 24, Height |-> 23, XOffset |-> 0 - 3,
      YOffset |-> 4, XAdvance |-> 19, Page |-> 1, Channel |-> 15 ]

CharB ==
    [ Id |-> 65, X |-> 0, Y |-> 0, Width |-> 29, Height |-> 25, XOffset |-> 0 - 6,
      YOffset |-> 2, XAdvance |-> 19, Page |-> 0, Channel |-> 15 ]

\* a char whose x does not fit 16 bits
CharWide == [CharB EXCEPT !.X = 65536, !.Id = 86]

CharLists == SeqsUpTo({CharA, CharB, CharWide}, MaxChars)

KerningA == [First |-> 86, Second |-> 65, Amount |-> 0 - 2]

KerningB == [First |-> 0 - 1, Second |-> 84, Amount |-> 258]

KerningLists == SeqsUpTo({KerningA, KerningB}, MaxKernings)

MkFont(i, c, p, ch, k) ==
    [Info |-> i, Common |-> c, Pages |-> p, Chars |-> ch, Kernings |-> k]

Fonts ==
    {MkFont(i, BaseCommon, BasePages, << CharA >>, << KerningA >>) : i \in Infos}
    \cup {MkFont(BaseInfo, c, BasePages, << CharA >>, << KerningA >>) : c \in Commons}
    \cup {MkFont(BaseInfo, BaseCommon, p, << CharA >>, << KerningA >>) : p \in PageLists}
    \cup {MkFont(BaseInfo, BaseCommon, BasePages, ch, k) : ch \in CharLists, k \in KerningLists}

\* Strings of a Font that SerializeText quotes: "", "A b", a"b, a\b, \, "5",
\* "a=b", "e-acute"
TextStrings ==
    { << >>, B("A b"), B("a\"b"), B("a\\b"), B("\\"), B("5"), B("a=b"), << 195, 169 >> }

\* Fonts handed to SerializeText
TextFonts ==
    {MkFont([BaseInfo EXCEPT !.Face = fa, !.Charset = cs], BaseCommon, BasePages,
            << CharA >>, << KerningA >>) : fa \in TextStrings, cs \in TextStrings}
    \cup {MkFont([BaseInfo EXCEPT !.Bold = bo, !.Unicode = ~bo, !.Size = 40000],
                 [BaseCommon EXCEPT !.Packed = bo], p, ch, k) :
            bo \in BOOLEAN,
            p \in {<< >>, << [Id |-> 5, File |-> B("A")] >>}
                  \cup {<< [Id |-> 0, File |-> fi] >> : fi \in TextStrings},
            ch \in {<< >>, << CharA, CharWide >>},
            k \in {<< >>, << KerningB, KerningA >>}}

\* The longest text file of the model, in lines
MaxLines == 3

\* Lines of text files: page and char lines, the counting tag ParseText has
\* no case for, tokens that are no key=value pair, an open quote, a file
\* attribute without quotes, an empty line
TextLines ==
    { B("page id=0 file=\"a.png\""),
      B("page id=5 file=\"b c\""),
      B("char id=-1 x=1 page=1"),
      B("chars count=1"),
      B("chars count"),
      B("char id"),
      B("page id=1 file=\"a"),
      B("page file=5"),
      << >> }

JoinLines(lines, eol) == Flatten([i \in 1..Len(lines) |-> lines[i] \o eol])

\* Text files: every line ends with \n; a file with the other tags, a file
\* with \r\n, and a file whose last line has no line end
TextInputs ==
    {JoinLines(ls, << 10 >>) : ls \in SeqsUpTo(TextLines, MaxLines)}
    \cup { JoinLines(<< B("info face=\"A b\" size=-26 unicode=1 charset=\"\" padding=1,2,3,4 spacing=2,1"),
                        B("common lineHeight=27 packed=1"),
                        B("kerning first=1 second=2 amount=-3") >>, << 10 >>),
           JoinLines(<< B("page id=0 file=\"a.png\""), B("char id=7") >>, << 13, 10 >>),
           B("page id=0 file=\"a.png\"") \o << 10 >> \o B("char id=7"),
           JoinLines(<< B("info face=5") >>, << 10 >>),
           JoinLines(<< B("info face=\"A\" charset=0 padding=1 spacing=-1") >>, << 10 >>),
           JoinLines(<< B("page id=0 file=a.png"), B("info face=Arial charset=ANSI") >>, << 10 >>),
           JoinLines(<< B("   "), B("char id=7"), B("char id=8") >>, << 10 >>),
           JoinLines(<< B("char id=7"), B("  "), B("char id=8") >>, << 10 >>),
           JoinLines(<< B("char id=7"), B("char id=8"), << 32, 9, 32 >> >>, << 10 >>) }

\* Text files whose source fails after it delivered their bytes
FailingSourceInputs ==
    {JoinLines(ls, << 10 >>) : ls \in {<< >>} \cup {<< l >> : l \in TextLines}}

\* What the source of ParseText ends with: io.EOF, or an error of its own
SourceErrors == {NoErr, "read failed"}


------------------------------------------------------------------------
\* The three encodings of a font, as the file format describes them: the
\* attributes of info, common and of every page, char and kerning, written
\* as a line of the text format, as an element of the XML format and as
\* the fields of a block of the binary format

NumAttr(key, n) == [key |-> B(key), quoted |-> FALSE, text |-> Itoa(n)]

QuotedAttr(key, s) == [key |-> B(key), quoted |-> TRUE, text |-> s]

ListAttr(key, ns) ==
    [ key |-> B(key), quoted |-> FALSE,
      text |-> Flatten([i \in 1..Len(ns) |-> IF i = 1 THEN Itoa(ns[i])
                                               ELSE << 44 >> \o Itoa(ns[i])]) ]

InfoAttrs(i) ==
    << QuotedAttr("face", i.Face), NumAttr("size", i.Size), NumAttr("bold", BoolByte(i.Bold)),
       NumAttr("italic", BoolByte(i.Italic)), QuotedAttr("charset", i.Charset),
       NumAttr("unicode", BoolByte(i.Unicode)), NumAttr("stretchH", i.StretchH),
       NumAttr("smooth", BoolByte(i.Smooth)), NumAttr("aa", i.AA),
       ListAttr("padding", << i.Padding.Up, i.Padding.Right, i.Padding.Down, i.Padding.Left >>),
       ListAttr("spacing", << i.Spacing.Horizontal, i.Spacing.Vertical >>),
       NumAttr("outline", i.Outline) >>

CommonAttrs(c) ==
    << NumAttr("lineHeight", c.LineHeight), NumAttr("base", c.Base),
       NumAttr("scaleW", c.ScaleW), NumAttr("scaleH", c.ScaleH), NumAttr("pages", c.Pages),
       NumAttr("packed", BoolByte(c.Packed)), NumAttr("alphaChnl", c.AlphaChannel),
       NumAttr("redChnl", c.RedChannel), NumAttr("greenChnl", c.GreenChannel),
       NumAttr("blueChnl", c.BlueChannel) >>

PageAttrs(p) == << NumAttr("id", p.Id), QuotedAttr("file", p.File) >>

CharAttrs(c) ==
    << NumAttr("id", c.Id), NumAttr("x", c.X), NumAttr("y", c.Y), NumAttr("width", c.Width),
       NumAttr("height", c.Height), NumAttr("xoffset", c.XOffset),
       NumAttr("yoffset", c.YOffset), NumAttr("xadvance", c.XAdvance),
       NumAttr("page", c.Page), NumAttr("chnl", c.Channel) >>

KerningAttrs(k) ==
    << NumAttr("first", k.First), NumAttr("second", k.Second), NumAttr("amount", k.Amount) >>

\* A line of the text format: the tag and key=value pairs, strings in quotes
TextLineOf(tag, attrs) ==
    B(tag)
    \o Flatten([i \in 1..Len(attrs) |->
                  << 32 >> \o attrs[i].key \o << 61 >>
                  \o (IF attrs[i].quoted THEN << 34 >> \o attrs[i].text \o << 34 >>
                      ELSE attrs[i].text)])
    \o << 10 >>

TextOf(f) ==
    TextLineOf("info", InfoAttrs(f.Info))
    \o TextLineOf("common", CommonAttrs(f.Common))
    \o Flatten([i \in 1..Len(f.Pages) |-> TextLineOf("page", PageAttrs(f.Pages[i]))])
    \o TextLineOf("chars", << NumAttr("count", Len(f.Chars)) >>)
    \o Flatten([i \in 1..Len(f.Chars) |-> TextLineOf("char", CharAttrs(f.Chars[i]))])
    \o TextLineOf("kernings", << NumAttr("count", Len(f.Kernings)) >>)
    \o Flatten([i \in 1..Len(f.Kernings) |-> TextLineOf("kerning", KerningAttrs(f.Kernings[i]))])

\* An element of the XML format with the attributes
ElementOf(tag, attrs, children) ==
    Element(B(tag), [i \in 1..Len(attrs) |-> Attr(attrs[i].key, attrs[i].text)], children)

XmlOf(f) ==
    [ wellFormed |-> TRUE,
      root |-> ElementOf("font", << >>,
        << ElementOf("info", InfoAttrs(f.Info), << >>),
           ElementOf("common", CommonAttrs(f.Common), << >>),
           ElementOf("pages", << >>,
             [i \in 1..Len(f.Pages) |-> ElementOf("page", PageAttrs(f.Pages[i]), << >>)]),
           ElementOf("chars", << NumAttr("count", Len(f.Chars)) >>,
             [i \in 1..Len(f.Chars) |-> ElementOf("char", CharAttrs(f.Chars[i]), << >>)]),
           ElementOf("kernings", << NumAttr("count", Len(f.Kernings)) >>,
             [i \in 1..Len(f.Kernings) |->
                ElementOf("kerning", KerningAttrs(f.Kernings[i]), << >>)]) >>) ]

\* The charset byte of the binary format for the charset name: 0 for "", which
\* goes with unicode, else the number the table has for the name
CharsetIdOf(name) ==
    IF name = << >> THEN 0 ELSE CHOOSE k \in DOMAIN CharsetTable : CharsetTable[k] = name

InfoBlockOf(i) ==
    Block(blockInfo, 15 + Len(i.Face),
          PutUint16(ToUint16(i.Size))
          \o << BoolByte(i.Smooth) * 128 + BoolByte(i.Unicode) * 64 + BoolByte(i.Italic) * 32
                  + BoolByte(i.Bold) * 16,
                CharsetIdOf(i.Charset) >>
          \o PutUint16(i.StretchH)
          \o << i.AA, i.Padding.Up, i.Padding.Right, i.Padding.Down, i.Padding.Left,
                i.Spacing.Horizontal, i.Spacing.Vertical, i.Outline >>
          \o i.Face \o << 0 >>)

CommonBlockOf(c) ==
    Block(blockCommon, 15,
          PutUint16(c.LineHeight) \o PutUint16(c.Base) \o PutUint16(c.ScaleW)
          \o PutUint16(c.ScaleH) \o PutUint16(c.Pages)
          \o << BoolByte(c.Packed), c.AlphaChannel, c.RedChannel, c.GreenChannel,
                c.BlueChannel >>)

\* The names of the pages have one length, as the format requires
PagesBlockOf(pages) ==
    With(Flatten([i \in 1..Len(pages) |-> pages[i].File \o << 0 >>]),
         LAMBDA body : Block(blockPages, Len(body), body))

CharRecordOf(c) ==
    PutUint32(c.Id) \o PutUint16(c.X) \o PutUint16(c.Y) \o PutUint16(c.Width)
    \o PutUint16(c.Height) \o PutUint16(ToUint16(c.XOffset)) \o PutUint16(ToUint16(c.YOffset))
    \o PutUint16(ToUint16(c.XAdvance)) \o << c.Page, c.Channel >>

KerningRecordOf(k) ==
    PutUint32(k.First) \o PutUint32(k.Second)
    \o PutUint16(ToUint16(k.Amount))

BinaryOf(f) ==
    Magic \o << SupportedVersion >>
    \o InfoBlockOf(f.Info) \o CommonBlockOf(f.Common) \o PagesBlockOf(f.Pages)
    \o Block(blockChars, 20 * Len(f.Chars),
             Flatten([i \in 1..Len(f.Chars) |-> CharRecordOf(f.Chars[i])]))
    \o Block(blockKerningPairs, 10 * Len(f.Kernings),
             Flatten([i \in 1..Len(f.Kernings) |-> KerningRecordOf(f.Kernings[i])]))

\* Fonts that have an encoding in each format: strings without double quote,
\* a charset of the table without unicode and none with it, page names of one
\* length, numbers within the widths of the binary fields.  Some page names
\* begin or end with a space.
LogicalInfos ==
    { [BaseInfo EXCEPT !.Face = fa, !.Unicode = un, !.Charset = IF un THEN << >> ELSE cs,
                       !.Bold = bo, !.Smooth = ~bo, !.Size = sz] :
        fa \in {B("Ar"), B("A b"), << >>}, un \in BOOLEAN,
        cs \in {B("Ansi"), B("Oem"), B("ShiftJIS")}, bo \in BOOLEAN, sz \in {0 - 26, 32767} }

LogicalPages ==
    { [k \in 1..Len(names) |-> [Id |-> k - 1, File |-> names[k]]] :
        names \in { << B("a.png") >>, << B("A0"), B("A1") >>, << B("a b") >>,
                    << B(" A") >>, << B("A ") >>, << B("A0"), B("A ") >> } }

LogicalFonts ==
    {MkFont(i, BaseCommon, BasePages, << CharA >>, << KerningA >>) : i \in LogicalInfos}
    \cup {MkFont(BaseInfo, [BaseCommon EXCEPT !.Packed = TRUE], p, ch, k) :
            p \in LogicalPages, ch \in {<< >>, << CharA, CharB >>},
            k \in {<< >>, << KerningB, KerningA >>}}

\* The XML declaration that opens the data of an XML file; the document that
\* follows it is held as its tree of elements
XmlDecl == B("<?xml version=\"1.0\"?>")

\* No well-formed document
Malformed == [wellFormed |-> FALSE, root |-> Element(<< >>, << >>, << >>)]

InfoDoc(rootName, attrs) ==
    [ wellFormed |-> TRUE,
      root |-> Element(rootName, << >>, << Element(B("info"), attrs, << >>) >>) ]

\* Documents handed to ParseXML: encodings of fonts, no document, a root of
\* another name, attributes that strconv rejects or accepts, elements without
\* a field, two info elements
XmlDocs ==
    {XmlOf(f) : f \in {MkFont(BaseInfo, BaseCommon, p, << CharA >>, << KerningA >>) :
                         p \in LogicalPages}}
    \cup { Malformed,
           InfoDoc(B("x"), << Attr(B("size"), B("7")) >>),
           InfoDoc(B("font"), << Attr(B("size"), B(" 7 ")), Attr(B("bold"), B("true")) >>),
           InfoDoc(B("font"), << Attr(B("size"), B("x")) >>),
           InfoDoc(B("font"), << Attr(B("bold"), B("2")) >>),
           InfoDoc(B("font"), << Attr(B("bold"), << >>), Attr(B("padding"), B("1,2")) >>),
           [ wellFormed |-> TRUE,
             root |-> Element(B("font"), << >>,
               << Element(B("info"), << Attr(B("size"), B("7")), Attr(B("face"), B("A")) >>, << >>),
                  Element(B("extra"), << Attr(B("size"), B("x")) >>, << >>),
                  Element(B("pages"), << >>,
                    << Element(B("page"), << Attr(B("id"), B("5")), Attr(B("file"), B("a")) >>, << >>),
                       Element(B("char"), << Attr(B("id"), B("6")) >>, << >>) >>),
                  Element(B("info"), << Attr(B("size"), B("8")) >>, << >>),
                  Element(B("chars"), << >>,
                    << Element(B("char"), << Attr(B("id"), B("x")) >>, << >>) >>) >>) ],
           [ wellFormed |-> TRUE,
             root |-> Element(B("font"), << >>,
               << Element(B("info"), << Attr(B("size"), B("7")), Attr(B("face"), B("A")) >>, << >>),
                  Element(B("extra"), << Attr(B("size"), B("x")) >>, << >>),
                  Element(B("pages"), << >>,
                    << Element(B("page"), << Attr(B("id"), B("5")), Attr(B("file"), B("a")) >>, << >>),
                       Element(B("char"), << Attr(B("id"), B("6")) >>, << >>) >>),
                  Element(B("info"), << Attr(B("size"), B("8")) >>, << >>) >>) ] }

\* Data handed to Parse, with the document it holds: data of fewer than five
\* bytes, binary and text files, XML files, and data that begins almost like
\* a binary or an XML file
ParseInputs ==
    { [data |-> d, doc |-> Malformed] :
        d \in { << >>, B("BMF"), Magic \o << SupportedVersion >>, B("<?xm"), B("info"),
                B("BMFxx"), B("bmf") \o << SupportedVersion, 1 >>, B(" <?xml "), B("<?XML "),
                B("<?xml"), B("BMF<?xml") }
              \cup {i \in CompleteInputs \cup BadHeaderInputs : Len(i) >= 4}
              \cup {JoinLines(ls, << 10 >>) : ls \in SeqsUpTo(TextLines, MaxLines - 1)} }
    \cup { [data |-> XmlDecl, doc |-> x] : x \in XmlDocs }

------------------------------------------------------------------------
\* The calls as a state machine.  A run is one call of ParseBinary on an input,
\* or one call of SerializeBinary on a Font followed by ParseBinary on the
\* bytes it wrote.

VARIABLES
    call,        \* "ParseBinary" or "SerializeBinary": the call that starts the run
    f0,          \* the Font handed to SerializeBinary
    bw,          \* SerializeBinary's Writer
    data,        \* the bytes handed to ParseBinary
    fileReader,  \* ParseBinary's Reader over data
    fnt,         \* the Font ParseBinary fills
    ret,         \* what ParseBinary returned: a Font or nil, and the error
    pc,          \* the position in the running call
    sc,          \* ParseText's Scanner over its source
    lineNr,      \* ParseText's lineNr
    line,        \* ParseText's line
    dst,         \* the bytes SerializeText wrote to its destination
    doc,         \* the XML document that ParseXML's data holds
    results      \* the returns of the parsers of a run that compares them

vars == << call, f0, bw, data, fileReader, fnt, ret, pc, sc, lineNr, line, dst, doc, results >>

\* The variables the binary codec leaves alone
others == << sc, lineNr, line, dst, doc, results >>

NoReturn == [hasFont |-> FALSE, fnt |-> ZeroFont, err |-> NilError]

\* No XML document: the run hands no data to ParseXML
NoDoc == Malformed

Init ==
    /\ bw = NewWriter
    /\ fnt = ZeroFont
    /\ ret = NoReturn
    /\ lineNr = 0
    /\ line = << >>
    /\ dst = << >>
    /\ results = << >>
    /\ \/ /\ call = "ParseBinary"
          /\ data \in Inputs
          /\ f0 = ZeroFont
          /\ fileReader = NewReader(data)
          /\ sc = NewScanner(<< >>, NoErr)
          /\ doc = NoDoc
          /\ pc = "ParseHeader"
       \/ /\ call = "SerializeBinary"
          /\ f0 \in Fonts
          /\ data = << >>
          /\ fileReader = NewReader(<< >>)
          /\ sc = NewScanner(<< >>, NoErr)
          /\ doc = NoDoc
          /\ pc = "SerializeInfo"
       \/ /\ call = "ParseText"
          /\ data \in TextInputs
          /\ f0 = ZeroFont
          /\ fileReader = NewReader(<< >>)
          /\ \E e \in SourceErrors :
                /\ e # NoErr => data \in FailingSourceInputs
                /\ sc = NewScanner(data, e)
          /\ doc = NoDoc
          /\ pc = "ScanLine"
       \/ /\ call = "SerializeText"
          /\ f0 \in TextFonts
          /\ data = << >>
          /\ fileReader = NewReader(<< >>)
          /\ sc = NewScanner(<< >>, NoErr)
          /\ doc = NoDoc
          /\ pc = "SerializeText"
       \/ /\ call = "ParseXML"
          /\ data = XmlDecl
          /\ doc \in XmlDocs
          /\ f0 = ZeroFont
          /\ fileReader = NewReader(<< >>)
          /\ sc = NewScanner(<< >>, NoErr)
          /\ pc = "ParseXML"
       \/ /\ call = "Parse"
          /\ \E i \in ParseInputs : data = i.data /\ doc = i.doc
          /\ f0 = ZeroFont
          /\ fileReader = NewReader(<< >>)
          /\ sc = NewScanner(<< >>, NoErr)
          /\ pc = "Parse"
       \/ /\ call = "ParseEach"
          /\ f0 \in LogicalFonts
          /\ data = TextOf(f0)
          /\ doc = XmlOf(f0)
          /\ fileReader = NewReader(<< >>)
          /\ sc = NewScanner(data, NoErr)
          /\ pc = "ScanLine"

\* SerializeBinary up to the first check of bw.Err: header and info block
SerializeInfo ==
    /\ pc = "SerializeInfo"
    /\ bw' = serializeInfoBlockBinary(f0, serializeHeaderBinary(bw))
    /\ pc' = IF bw'.Err # NoErr THEN "Serialized" ELSE "SerializeCommon"
    /\ UNCHANGED << call, f0, data, fileReader, fnt, ret, others >>

SerializeCommon ==
    /\ pc = "SerializeCommon"
    /\ bw' = serializeCommonBlockBinary(f0, bw)
    /\ pc' = IF bw'.Err # NoErr THEN "Serialized" ELSE "SerializePages"
    /\ UNCHANGED << call, f0, data, fileReader, fnt, ret, others >>

SerializePages ==
    /\ pc = "SerializePages"
    /\ bw' = serializePagesBlockBinary(f0, bw)
    /\ pc' = IF bw'.Err # NoErr THEN "Serialized" ELSE "SerializeChars"
    /\ UNCHANGED << call, f0, data, fileReader, fnt, ret, others >>

SerializeChars ==
    /\ pc = "SerializeChars"
    /\ bw' = serializeCharsBlockBinary(f0, bw)
    /\ pc' = IF bw'.Err # NoErr THEN "Serialized" ELSE "SerializeKernings"
    /\ UNCHANGED << call, f0, data, fileReader, fnt, ret, others >>

SerializeKernings ==
    /\ pc = "SerializeKernings"
    /\ bw' = serializeKerningsBlockBinary(f0, bw)
    /\ pc' = "Serialized"
    /\ UNCHANGED << call, f0, data, fileReader, fnt, ret, others >>

\* ParseBinary is called on the bytes SerializeBinary wrote
Reparse ==
    /\ pc = "Serialized"
    /\ bw.Err = NoErr
    /\ data' = bw.Dst
    /\ fileReader' = NewReader(bw.Dst)
    /\ pc' = "ParseHeader"
    /\ UNCHANGED << call, f0, bw, fnt, ret, others >>

\* ParseBinary up to the block loop
ParseHeader ==
    /\ pc = "ParseHeader"
    /\ \E h \in {parseHeaderBinary(fileReader)} :
           /\ fileReader' = h.rd
           /\ IF h.err.Err # NoErr
              THEN ret' = [hasFont |-> FALSE, fnt |-> ZeroFont, err |-> h.err] /\ pc' = "Done"
              ELSE ret' = ret /\ pc' = "ParseBlock"
    /\ UNCHANGED << call, f0, bw, data, fnt, others >>

\* One iteration of ParseBinary's block loop, and the return that ends it
ParseBlock ==
    /\ pc = "ParseBlock"
    /\ \E b \in {parseBlockBinary(fnt, fileReader)} :
           /\ fileReader' = b.rd
           /\ IF IsEOF(b.err)
              THEN /\ ret' = [hasFont |-> TRUE, fnt |-> fnt, err |-> NilError]
                   /\ fnt' = fnt
                   /\ pc' = "Done"
              ELSE IF b.err.Err # NoErr
              THEN /\ ret' = [hasFont |-> FALSE, fnt |-> ZeroFont, err |-> b.err]
                   /\ fnt' = fnt
                   /\ pc' = "Done"
              ELSE /\ ret' = ret
                   /\ fnt' = b.fnt
                   /\ pc' = "ParseBlock"
    /\ UNCHANGED << call, f0, bw, data, others >>

\* SerializeBinary is called on the Font that ParseBinary returned for the
\* bytes of the first SerializeBinary; data keeps those bytes.  The Writer's
\* destination takes every write, so no check of bw.Err ends the call early.
Reserialize ==
    /\ pc = "Done"
    /\ call = "SerializeBinary"
    /\ ret.hasFont
    /\ \E w1 \in {serializeInfoBlockBinary(ret.fnt, serializeHeaderBinary(NewWriter))} :
       \E w2 \in {serializeCommonBlockBinary(ret.fnt, w1)} :
       \E w3 \in {serializePagesBlockBinary(ret.fnt, w2)} :
       \E w4 \in {serializeCharsBlockBinary(ret.fnt, w3)} :
           bw' = serializeKerningsBlockBinary(ret.fnt, w4)
    /\ pc' = "Reserialized"
    /\ UNCHANGED << call, f0, data, fileReader, fnt, ret, others >>

\* One iteration of ParseText's line loop, and the return that ends it.  A
\* line that parseTagText rejects ends the call with the deferred
\* TextParseError; an index out of range in a sub-parser ends it with a panic.
ScanLine ==
    /\ pc = "ScanLine"
    /\ IF lineNr < Len(sc.lines)
       THEN \E t \in {parseTagText(sc.lines[lineNr + 1])} :
              /\ lineNr' = lineNr + 1
              /\ line' = sc.lines[lineNr + 1]
              /\ IF t.err # NoErr
                 THEN /\ ret' = [hasFont |-> FALSE, fnt |-> ZeroFont,
                                 err |-> TextParseError(line', lineNr', t.err)]
                      /\ fnt' = fnt
                      /\ pc' = "Returned"
                 ELSE \E a \in {applyTagText(fnt, t)} :
                        /\ ret' = ret
                        /\ fnt' = a.val
                        /\ pc' = IF a.panic THEN "Panicked" ELSE "ScanLine"
       ELSE /\ ret' = [hasFont |-> TRUE, fnt |-> fnt,
                       err |-> IF sc.err = NoErr THEN NilTextError
                               ELSE TextParseError(line, lineNr, sc.err)]
            /\ pc' = "Returned"
            /\ UNCHANGED << lineNr, line, fnt >>
    /\ UNCHANGED << call, f0, bw, data, fileReader, sc, dst, doc, results >>

\* SerializeText on a destination that takes every write
SerializeText ==
    /\ pc = "SerializeText"
    /\ \E b1 \in {serializeInfoBlockText(f0)} :
       \E b2 \in {b1 \o serializeCommonBlockText(f0)} :
       \E b3 \in {b2 \o serializePagesBlockText(f0)} :
       \E b4 \in {b3 \o serializeCharsBlockText(f0)} :
           dst' = b4 \o serializeKerningsBlockText(f0)
    /\ pc' = "TextSerialized"
    /\ UNCHANGED << call, f0, bw, data, fileReader, fnt, ret, sc, lineNr, line, doc, results >>

\* ParseText is called on the bytes SerializeText wrote
ReparseText ==
    /\ pc = "TextSerialized"
    /\ data' = dst
    /\ sc' = NewScanner(dst, NoErr)
    /\ pc' = "ScanLine"
    /\ UNCHANGED << call, f0, bw, fileReader, fnt, ret, lineNr, line, dst, doc, results >>

\* A detection that looks at the first bytes of data of every length
detectFormat_NoLengthCheck(d) ==
    IF Len(d) >= 3 /\ SubSeq(d, 1, 3) = B("BMF") THEN "binary"
    ELSE IF Len(d) >= 5 /\ SubSeq(d, 1, 5) = B("<?xml") THEN "xml"
    ELSE "text"

\* The format Parse detects: "short" for data of fewer than five bytes
detectFormat(d) ==
    IF Len(d) < 5 THEN "short"
    ELSE IF SubSeq(d, 1, 3) = B("BMF") THEN "binary"
    ELSE IF SubSeq(d, 1, 5) = B("<?xml") THEN "xml"
    ELSE "text"

\* Parse up to the call of the codec; the codec's return is Parse's return
Parse ==
    /\ pc = "Parse"
    /\ \E format \in {detectFormat(data)} :
        /\ pc' = CASE format = "short" -> "Returned"
                   [] format = "binary" -> "ParseHeader"
                   [] format = "xml" -> "ParseXML"
                   [] OTHER -> "ScanLine"
        /\ ret' = IF format = "short"
                  THEN [hasFont |-> FALSE, fnt |-> ZeroFont,
                        err |-> [Err |-> "data must have length of at least 5 bytes"]]
                  ELSE ret
        /\ fileReader' = IF format = "binary" THEN NewReader(data) ELSE fileReader
        /\ sc' = IF format = "text" THEN NewScanner(data, NoErr) ELSE sc
    /\ UNCHANGED << call, f0, bw, data, fnt, lineNr, line, dst, doc, results >>

\* ParseXML on data that holds the document doc
ParseXML ==
    /\ pc = "ParseXML"
    /\ ret' = ParseXMLResult(doc)
    /\ pc' = "Returned"
    /\ UNCHANGED << call, f0, bw, data, fileReader, fnt, sc, lineNr, line, dst, doc, results >>

\* The three parsers on the three encodings of one font, one after the
\* other: the return of a parser is kept and the next parser is called
ParseNext ==
    /\ call = "ParseEach"
    /\ pc \in {"Returned", "Done"}
    /\ results' = Append(results, ret)
    /\ ret' = NoReturn
    /\ fnt' = ZeroFont
    /\ CASE Len(results) = 0 ->
              /\ data' = XmlDecl
              /\ pc' = "ParseXML"
              /\ UNCHANGED fileReader
         [] Len(results) = 1 ->
              /\ data' = BinaryOf(f0)
              /\ fileReader' = NewReader(data')
              /\ pc' = "ParseHeader"
         [] OTHER ->
              /\ pc' = "Compared"
              /\ UNCHANGED << data, fileReader >>
    /\ UNCHANGED << call, f0, bw, sc, lineNr, line, dst, doc >>

Next ==
    \/ SerializeInfo
    \/ SerializeCommon
    \/ SerializePages
    \/ SerializeChars
    \/ SerializeKernings
    \/ Reparse
    \/ ParseHeader
    \/ ParseBlock
    \/ Reserialize
    \/ ScanLine
    \/ SerializeText
    \/ ReparseText
    \/ Parse
    \/ ParseXML
    \/ ParseNext

Spec == Init /\ [][Next]_vars

------------------------------------------------------------------------
\* Calls of the attribute functions and of the charset lookups

\* Padding.MarshalXMLAttr and Spacing.MarshalXMLAttr: the attribute values
\* fmt.Sprintf("%d,%d,%d,%d", ...) and fmt.Sprintf("%d,%d", ...)
PaddingMarshalXMLAttr(pad) ==
    Itoa(pad.Up) \o << 44 >> \o Itoa(pad.Right) \o << 44 >>
        \o Itoa(pad.Down) \o << 44 >> \o Itoa(pad.Left)

SpacingMarshalXMLAttr(sp) == Itoa(sp.Horizontal) \o << 44 >> \o Itoa(sp.Vertical)

\* Attribute values: up to MaxComponents components separated by commas
MaxComponents == 5

AttrComponents == {B(""), B("0"), B("7"), B("-12"), B("x")}

RECURSIVE JoinComma(_)
JoinComma(c) ==
    IF Len(c) = 0 THEN << >>
    ELSE IF Len(c) = 1 THEN c[1]
    ELSE c[1] \o << 44 >> \o JoinComma(Tail(c))

AttrValueInputs == {JoinComma(c) : c \in SeqsUpTo(AttrComponents, MaxComponents)}

AttrNumbers == {0, 7, 0 - 12, 255}

Paddings == [Up : AttrNumbers, Right : AttrNumbers, Down : AttrNumbers, Left : AttrNumbers]

Spacings == [Horizontal : AttrNumbers, Vertical : AttrNumbers]

\* strings.ToUpper on ASCII text
UpperByte(c) == IF c >= 97 /\ c <= 122 THEN c - 32 ELSE c

ToUpper(s) == [i \in 1..Len(s) |-> UpperByte(s[i])]

\* Upper and lower case in turn, starting with lower case
MixedCase(s) == [i \in 1..Len(s) |-> IF i % 2 = 1 THEN LowerByte(s[i]) ELSE UpperByte(s[i])]

\* The ids of LookupCharset: every value of the charset byte
CharsetIds == 0..255

\* The names handed to LookupCharsetValue on their own: the table names as
\* they are, in lower, upper and mixed case, decimal strings and other text
CharsetNameInputs ==
    UNION {{n, ToLower(n), ToUpper(n), MixedCase(n)} : n \in {CharsetTable[k] : k \in DOMAIN CharsetTable}}
    \cup {Itoa(i) : i \in CharsetIds}
    \cup {B(""), B("x"), B("+7"), B("-1"), B("007"), B("Ansi "), B("1x")}

AttrInit ==
    /\ bw = NewWriter
    /\ fnt = ZeroFont
    /\ ret = NoReturn
    /\ lineNr = 0
    /\ line = << >>
    /\ dst = << >>
    /\ results = << >>
    /\ fileReader = NewReader(<< >>)
    /\ sc = NewScanner(<< >>, NoErr)
    /\ doc = NoDoc
    /\ \/ /\ call \in {"parsePadding", "parseSpacing"}
          /\ data \in AttrValueInputs
          /\ f0 = ZeroFont
          /\ pc = call
       \/ /\ call = "Padding.MarshalXMLAttr"
          /\ f0 \in Paddings
          /\ data = << >>
          /\ pc = call
       \/ /\ call = "Spacing.MarshalXMLAttr"
          /\ f0 \in Spacings
          /\ data = << >>
          /\ pc = call
       \/ /\ call = "LookupCharset"
          /\ f0 \in CharsetIds
          /\ data = << >>
          /\ pc = call
       \/ /\ call = "LookupCharsetValue"
          /\ f0 = 0
          /\ data \in CharsetNameInputs
          /\ pc = call

\* The variables the calls of these functions leave alone
attrOthers == << call, f0, bw, fileReader, fnt, ret, sc, lineNr, line, dst, doc >>

\* pad.MarshalXMLAttr(name): the value is handed on to UnmarshalXMLAttr
MarshalPadding ==
    /\ pc = "Padding.MarshalXMLAttr"
    /\ data' = PaddingMarshalXMLAttr(f0)
    /\ pc' = "parsePadding"
    /\ UNCHANGED << results, attrOthers >>

MarshalSpacing ==
    /\ pc = "Spacing.MarshalXMLAttr"
    /\ data' = SpacingMarshalXMLAttr(f0)
    /\ pc' = "parseSpacing"
    /\ UNCHANGED << results, attrOthers >>

\* parsePadding(data), also as called by Padding.UnmarshalXMLAttr
CallParsePadding ==
    /\ pc = "parsePadding"
    /\ results' = << parsePadding(data) >>
    /\ pc' = "Returned"
    /\ UNCHANGED << data, attrOthers >>

CallParseSpacing ==
    /\ pc = "parseSpacing"
    /\ results' = << parseSpacing(data) >>
    /\ pc' = "Returned"
    /\ UNCHANGED << data, attrOthers >>

\* name, found := LookupCharset(f0); the name is handed on to LookupCharsetValue
CallLookupCharset ==
    /\ pc = "LookupCharset"
    /\ results' = << LookupCharset(f0) >>
    /\ data' = LookupCharset(f0).name
    /\ pc' = "LookupCharsetValue"
    /\ UNCHANGED attrOthers

CallLookupCharsetValue ==
    /\ pc = "LookupCharsetValue"
    /\ results' = Append(results, LookupCharsetValue(data))
    /\ pc' = "Returned"
    /\ UNCHANGED << data, attrOthers >>

AttrNext ==
    \/ MarshalPadding
    \/ MarshalSpacing
    \/ CallParsePadding
    \/ CallParseSpacing
    \/ CallLookupCharset
    \/ CallLookupCharsetValue

AttrSpec == AttrInit /\ [][AttrNext]_vars

------------------------------------------------------------------------
\* SerializeBinary on a destination that fails

\* The largest number of a call of Dst.Write that the destination fails
MaxWriteCalls == 64

WriteFonts ==
    {MkFont(BaseInfo, BaseCommon, p, ch, k) :
        p \in {<< >>, BasePages}, ch \in {<< >>, << CharA >>},
        k \in {<< >>, << KerningA, KerningB >>}}

\* SerializeBinary(f0, dst): dst fails one call of Write, or none
WriteInit ==
    /\ call = "SerializeBinary"
    /\ f0 \in WriteFonts
    /\ bw \in {FailingWriter(k, t) : k \in 0..MaxWriteCalls, t \in 0..1}
    /\ fnt = ZeroFont
    /\ ret = NoReturn
    /\ lineNr = 0
    /\ line = << >>
    /\ dst = << >>
    /\ results = << >>
    /\ data = << >>
    /\ fileReader = NewReader(<< >>)
    /\ sc = NewScanner(<< >>, NoErr)
    /\ doc = NoDoc
    /\ pc = "SerializeInfo"

\* SerializeBinary alone: at pc = "Serialized" it has returned bw.Err
WriteNext ==
    \/ SerializeInfo
    \/ SerializeCommon
    \/ SerializePages
    \/ SerializeChars
    \/ SerializeKernings

WriteSpec == WriteInit /\ [][WriteNext]_vars

------------------------------------------------------------------------
\* Vocabulary of the properties

\* The input starts with "BMF" and the version byte 3
HeaderValid(d) == Len(d) >= 4 /\ SubSeq(d, 1, 4) = ValidHeader

\* The bytes after the four header bytes
AfterHeader(d) == SubSeq(d, 5, Len(d))

\* The number of input bytes ParseBinary has taken from its source
Consumed == Len(data) - Len(fileReader.Src)

\* The stream of blocks ends inside a block: a block-type byte is there, but
\* not the whole length field and declared body
RECURSIVE EndsInsideBlock(_)
EndsInsideBlock(bytes) ==
    IF Len(bytes) = 0 THEN FALSE
    ELSE IF Len(bytes) < 5 THEN TRUE
    ELSE IF Len(bytes) - 5 < LEUint32(SubSeq(bytes, 2, 5)) THEN TRUE
    ELSE EndsInsideBlock(SubSeq(bytes, 6 + LEUint32(SubSeq(bytes, 2, 5)), Len(bytes)))

\* The position of the first zero byte of a body, 0 when it has none
FirstZero(body) ==
    IF \E i \in 1..Len(body) : body[i] = 0
    THEN CHOOSE i \in 1..Len(body) : body[i] = 0 /\ \A j \in 1..(i - 1) : body[j] # 0
    ELSE 0

\* The layout rules of the format for the body of a block
WellFormedBody(type, body) ==
    CASE type = blockInfo         -> Len(body) >= 15 /\ body[Len(body)] = 0
      [] type = blockCommon       -> Len(body) = 15
      [] type = blockPages        -> FirstZero(body) # 0 /\ Len(body) % FirstZero(body) = 0
      [] type = blockChars        -> Len(body) % 20 = 0
      [] type = blockKerningPairs -> Len(body) % 10 = 0
      [] OTHER                    -> FALSE

\* Zero or more complete, well-formed blocks and nothing else
RECURSIVE WellFormedStream(_)
WellFormedStream(bytes) ==
    IF Len(bytes) = 0 THEN TRUE
    ELSE IF Len(bytes) < 5 THEN FALSE
    ELSE IF Len(bytes) - 5 < LEUint32(SubSeq(bytes, 2, 5)) THEN FALSE
    ELSE /\ WellFormedBody(bytes[1], SubSeq(bytes, 6, 5 + LEUint32(SubSeq(bytes, 2, 5))))
         /\ WellFormedStream(SubSeq(bytes, 6 + LEUint32(SubSeq(bytes, 2, 5)), Len(bytes)))

\* The content of a well-formed block on its own: its body decoded apart from
\* any stream
BlockContent(type, body) == parseBlockBody(type, NewReader(body), Len(body)).val

\* The Font that holds the content of exactly the blocks of a well-formed
\* stream, starting from f
RECURSIVE StreamContent(_, _)
StreamContent(f, bytes) ==
    IF Len(bytes) = 0 THEN f
    ELSE StreamContent(
           AssignBlock(f, bytes[1],
               BlockContent(bytes[1], SubSeq(bytes, 6, 5 + LEUint32(SubSeq(bytes, 2, 5))))),
           SubSeq(bytes, 6 + LEUint32(SubSeq(bytes, 2, 5)), Len(bytes)))

IsAsciiName(s) ==
    /\ \A i \in 1..Len(s) : s[i] >= 1 /\ s[i] <= 127
    /\ Len(s) > 0 => (s[1] # 32 /\ s[Len(s)] # 32)

TableNames == {CharsetTable[k] : k \in DOMAIN CharsetTable}

FitsUint8(i) == i >= 0 /\ i <= 255

FitsUint16(i) == i >= 0 /\ i <= 65535

FitsInt16(i) == i >= 0 - 32768 /\ i <= 32767

InfoFits(i) ==
    /\ FitsInt16(i.Size) /\ FitsUint16(i.StretchH) /\ FitsUint8(i.AA) /\ FitsUint8(i.Outline)
    /\ FitsUint8(i.Padding.Up) /\ FitsUint8(i.Padding.Right)
    /\ FitsUint8(i.Padding.Down) /\ FitsUint8(i.Padding.Left)
    /\ FitsUint8(i.Spacing.Horizontal) /\ FitsUint8(i.Spacing.Vertical)

CommonFits(c) ==
    /\ FitsUint16(c.LineHeight) /\ FitsUint16(c.Base) /\ FitsUint16(c.ScaleW)
    /\ FitsUint16(c.ScaleH) /\ FitsUint16(c.Pages)
    /\ FitsUint8(c.AlphaChannel) /\ FitsUint8(c.RedChannel)
    /\ FitsUint8(c.GreenChannel) /\ FitsUint8(c.BlueChannel)

CharFits(c) ==
    /\ FitsUint16(c.X) /\ FitsUint16(c.Y) /\ FitsUint16(c.Width) /\ FitsUint16(c.Height)
    /\ FitsInt16(c.XOffset) /\ FitsInt16(c.YOffset) /\ FitsInt16(c.XAdvance)
    /\ FitsUint8(c.Page) /\ FitsUint8(c.Channel)

\* The Fonts of the binary round trip
RoundTripFont(f) ==
    /\ Len(f.Pages) >= 1
    /\ InfoFits(f.Info) /\ CommonFits(f.Common)
    /\ \A k \in 1..Len(f.Chars) : CharFits(f.Chars[k])
    /\ \A k \in 1..Len(f.Kernings) : FitsInt16(f.Kernings[k].Amount)
    /\ \A k \in 1..Len(f.Pages) : f.Pages[k].Id = k - 1 /\ IsAsciiName(f.Pages[k].File)
    /\ IF f.Info.Unicode THEN f.Info.Charset = << >> ELSE f.Info.Charset \in TableNames
    /\ IsAsciiName(f.Info.Face)

------------------------------------------------------------------------
\* Properties

\* C1: binary round trip.  For every Font with at least one page, numeric
\* fields within their binary widths, page ids equal to the positions, a
\* Charset that is empty under Unicode and a table name otherwise, and ASCII
\* face and file names without zero bytes and without leading or trailing
\* spaces, ParseBinary on the bytes SerializeBinary wrote succeeds and
\* returns an equal Font.
C1_BinaryRoundTrip ==
    (pc = "Done" /\ call = "SerializeBinary" /\ RoundTripFont(f0))
        => (ret.hasFont /\ ret.err = NilError /\ ret.fnt = f0)

\* A round trip of a Font whose two page names differ in length and whose
\* char has the code point -1
C1_Witness ==
    /\ pc = "Done" /\ call = "SerializeBinary" /\ RoundTripFont(f0)
    /\ Len(f0.Pages) = 2 /\ Len(f0.Pages[1].File) # Len(f0.Pages[2].File)
    /\ Len(f0.Chars) >= 1 /\ f0.Chars[1].Id = 0 - 1
    /\ ret.hasFont

\* C2: truncated input is fatal.  Every input with a valid header that ends
\* inside a block makes ParseBinary return an error and no Font.
C2_TruncatedInputIsFatal ==
    (pc = "Done" /\ HeaderValid(data) /\ EndsInsideBlock(AfterHeader(data)))
        => (~ret.hasFont /\ ret.err.Err # NoErr)

\* C3: header validation.  When the first three bytes are not "BMF" or the
\* fourth is not 3, ParseBinary fails with an error of the header block,
\* returns no Font, takes no byte past the fourth and fills nothing.
C3_HeaderValidation ==
    (pc \in {"ParseBlock", "Done"} /\ ~HeaderValid(data))
        => /\ pc = "Done"
           /\ ~ret.hasFont
           /\ ret.err.Err # NoErr
           /\ ret.err.Block = blockHeader
           /\ Consumed <= 4
           /\ fnt = ZeroFont

\* "BMF" with version 2 (or another wrong version) followed by a block
C3_Witness ==
    /\ pc = "Done" /\ call = "ParseBinary"
    /\ Len(data) > 4 /\ SubSeq(data, 1, 3) = Magic /\ data[4] # SupportedVersion
    /\ ~ret.hasFont

\* C4: end of input at a block-type position is normal termination.  Every
\* input made of the valid header and complete, well-formed blocks is parsed
\* successfully, the loop ends when the whole input is consumed, and the Font
\* holds the content of exactly the blocks present.
C4_EndOfInputAtBlockBoundary ==
    (pc = "Done" /\ HeaderValid(data) /\ WellFormedStream(AfterHeader(data)))
        => /\ ret.hasFont
           /\ ret.err = NilError
           /\ fileReader.Src = << >>
           /\ fileReader.Index = Len(data)
           /\ ret.fnt = StreamContent(ZeroFont, AfterHeader(data))

\* An input with an info block and a pages block and no common block
C4_Witness ==
    /\ pc = "Done" /\ call = "ParseBinary"
    /\ HeaderValid(data) /\ WellFormedStream(AfterHeader(data))
    /\ ret.hasFont
    /\ ret.fnt.Info # ZeroInfo /\ ret.fnt.Pages # << >> /\ ret.fnt.Common = ZeroCommon

\* C5: an invalid block type is fatal.  Whenever the byte at a block-type
\* position is outside 1..5, ParseBinary returns an error and no Font,
\* whatever was parsed before.
C5_InvalidBlockTypeIsFatal ==
    [][ (pc = "ParseBlock" /\ Len(fileReader.Src) > 0 /\ fileReader.Src[1] \notin 1..5)
          => (pc' = "Done" /\ ~ret'.hasFont /\ ret'.err.Err # NoErr) ]_vars

\* A block of type 0 or 6 after a block that was parsed
C5_Witness ==
    /\ pc = "Done" /\ call = "ParseBinary"
    /\ ret.err.Err = "expected block type to be one of 1,2,3,4,5"
    /\ fnt # ZeroFont
    /\ ~ret.hasFont

\* The block at the head of the source when an iteration of the loop begins

NextType == fileReader.Src[1]

HasLength == Len(fileReader.Src) >= 5

NextLen == LEUint32(SubSeq(fileReader.Src, 2, 5))

\* The bytes of the declared body that the input holds
NextBody == SubSeq(fileReader.Src, 6, Min(Len(fileReader.Src), 5 + NextLen))

BodyComplete == Len(fileReader.Src) >= 5 + NextLen

\* The iteration ends ParseBinary with an error and no Font
BlockRejected == pc' = "Done" /\ ~ret'.hasFont /\ ret'.err.Err # NoErr

\* The iteration parsed its block and the loop goes on
BlockAccepted == pc' = "ParseBlock"

\* A char record and a kerning record of the format, field by field
RecordChar(rec) ==
    [ Id |-> LEInt32(SubSeq(rec, 1, 4)),
      X |-> LEUint16(SubSeq(rec, 5, 6)), Y |-> LEUint16(SubSeq(rec, 7, 8)),
      Width |-> LEUint16(SubSeq(rec, 9, 10)), Height |-> LEUint16(SubSeq(rec, 11, 12)),
      XOffset |-> ToInt16(LEUint16(SubSeq(rec, 13, 14))),
      YOffset |-> ToInt16(LEUint16(SubSeq(rec, 15, 16))),
      XAdvance |-> ToInt16(LEUint16(SubSeq(rec, 17, 18))),
      Page |-> rec[19], Channel |-> rec[20] ]

RecordKerning(rec) ==
    [ First |-> LEInt32(SubSeq(rec, 1, 4)), Second |-> LEInt32(SubSeq(rec, 5, 8)),
      Amount |-> ToInt16(LEUint16(SubSeq(rec, 9, 10))) ]

RecordsStep(size, recs, Record(_)) ==
    IF NextLen % size # 0
    THEN BlockRejected /\ Len(fileReader'.Src) = Len(fileReader.Src) - 5
    ELSE /\ BodyComplete => BlockAccepted
         /\ BlockAccepted =>
              /\ Len(recs) = NextLen \div size
              /\ \A k \in 1..Len(recs) :
                    k * size <= Len(NextBody)
                        => recs[k] = Record(SubSeq(NextBody, (k - 1) * size + 1, k * size))

\* C6: record-size validation.  A chars block whose declared length is not a
\* multiple of 20, or a kerning-pairs block whose length is not a multiple of
\* 10, is rejected after the five bytes of type and length, before any
\* record is read; when the length is a multiple, a complete block is
\* accepted, and an accepted block yields length/20 chars (length/10
\* kernings), each record of the input decoded at its position.
C6_RecordSizeValidation ==
    [][ (pc = "ParseBlock" /\ HasLength /\ NextType \in {blockChars, blockKerningPairs})
          => IF NextType = blockChars
             THEN RecordsStep(20, fnt'.Chars, RecordChar)
             ELSE RecordsStep(10, fnt'.Kernings, RecordKerning) ]_vars

\* A chars block whose length is not a multiple of 20 was rejected
C6_Witness ==
    /\ pc = "Done" /\ call = "ParseBinary"
    /\ ~ret.hasFont
    /\ ret.err.Block = blockChars /\ ret.err.BlockLength % 20 # 0
    /\ Consumed = ret.err.Offset

\* C7: pages stride inference.  The length of the first null-terminated
\* name, terminator included, is the stride: a pages block is rejected when
\* its declared length holds no zero byte or is not a multiple of the
\* stride; otherwise a complete block is accepted, and an accepted block
\* yields length/stride pages.
C7_PagesStride ==
    [][ (pc = "ParseBlock" /\ HasLength /\ NextType = blockPages)
          => IF FirstZero(NextBody) = 0 \/ NextLen % FirstZero(NextBody) # 0
             THEN BlockRejected /\ ret'.err.Block = blockPages
             ELSE /\ BodyComplete => BlockAccepted
                  /\ BlockAccepted => Len(fnt'.Pages) = NextLen \div FirstZero(NextBody) ]_vars

\* A pages block whose first name is shorter than the next one and whose
\* length is no multiple of the stride was rejected
C7_Witness ==
    /\ pc = "Done" /\ call = "ParseBinary"
    /\ ~ret.hasFont
    /\ ret.err.Err = "expected multiple of nameLen bytes for pages block"
    /\ ret.err.BlockLength = 5

\* s without its leading and trailing spaces
Strip(s) ==
    IF \A i \in 1..Len(s) : s[i] = 32 THEN << >>
    ELSE SubSeq(s, CHOOSE i \in 1..Len(s) : s[i] # 32 /\ \A j \in 1..(i - 1) : s[j] = 32,
                   CHOOSE i \in 1..Len(s) : s[i] # 32 /\ \A j \in (i + 1)..Len(s) : s[j] = 32)

\* s without its trailing spaces
StripRight(s) ==
    IF \A i \in 1..Len(s) : s[i] = 32 THEN << >>
    ELSE SubSeq(s, 1, CHOOSE i \in 1..Len(s) : s[i] # 32 /\ \A j \in (i + 1)..Len(s) : s[j] = 32)

\* The name of record i of the pages block at the head of the source: the
\* bytes of the record before its stride boundary
PageRecordName(i) ==
    SubSeq(NextBody, (i - 1) * FirstZero(NextBody) + 1, i * FirstZero(NextBody) - 1)

PagesStep(Strp(_)) ==
    \A i \in 1..Len(fnt'.Pages) :
        /\ fnt'.Pages[i].Id = i - 1
        /\ i * FirstZero(NextBody) <= Len(NextBody)
              => fnt'.Pages[i].File = Strp(PageRecordName(i))

\* C8 as claimed: the File of every page record of an accepted pages block is
\* the record's name without its trailing spaces, nothing else removed, and
\* the page at position i has Id = i.
C8_TrailingSpacesOnly ==
    [][ (pc = "ParseBlock" /\ HasLength /\ NextType = blockPages /\ BlockAccepted)
          => PagesStep(StripRight) ]_vars

\* C8 amended: the File of every page record of an accepted pages block that
\* the input holds completely is the record's name without its leading and
\* trailing spaces, and the page at position i has Id = i.
C8_LeadingAndTrailingSpaces ==
    [][ (pc = "ParseBlock" /\ HasLength /\ NextType = blockPages /\ BlockAccepted)
          => PagesStep(Strip) ]_vars

\* A pages block with a name that starts with a space and a padded name was
\* parsed
C8_Witness ==
    /\ pc = "Done" /\ call = "ParseBinary"
    /\ data = ValidHeader \o Block(blockPages, 8, << 32, 65, 32, 0, 66, 32, 67, 0 >>)
    /\ ret.hasFont
    /\ Len(ret.fnt.Pages) = 2

\* body with bits 0-3 of its flags byte cleared
ClearLowFlags(body) == [body EXCEPT ![3] = @ - (@ % 16)]

\* C9: info block decoding.  Smooth, Unicode, Italic and Bold are bits 7, 6,
\* 5 and 4 of the flags byte, bits 0-3 change nothing of the result, Charset
\* is empty under the unicode bit and otherwise the table name of the charset
\* byte or its decimal string; SerializeBinary writes the four flags to the
\* same bits.
C9_InfoDecoding ==
    [][ /\ (pc = "ParseBlock" /\ HasLength /\ NextType = blockInfo /\ BlockAccepted)
            => /\ fnt'.Info.Smooth  = (NextBody[3] >= 128)
               /\ fnt'.Info.Unicode = (NextBody[3] % 128 >= 64)
               /\ fnt'.Info.Italic  = (NextBody[3] % 64 >= 32)
               /\ fnt'.Info.Bold    = (NextBody[3] % 32 >= 16)
               /\ fnt'.Info.Charset =
                     IF NextBody[3] % 128 >= 64 THEN << >>
                     ELSE IF NextBody[4] \in DOMAIN CharsetTable
                     THEN CharsetTable[NextBody[4]]
                     ELSE Itoa(NextBody[4])
               /\ BodyComplete
                     => fnt'.Info = BlockContent(blockInfo, ClearLowFlags(NextBody))
        /\ pc = "SerializeInfo"
            => /\ (bw'.Dst[12] >= 128) = f0.Info.Smooth
               /\ (bw'.Dst[12] % 128 >= 64) = f0.Info.Unicode
               /\ (bw'.Dst[12] % 64 >= 32) = f0.Info.Italic
               /\ (bw'.Dst[12] % 32 >= 16) = f0.Info.Bold
               /\ bw'.Dst[12] % 16 = 0 ]_vars

\* An info block with bits 0-3 set, the unicode bit clear and a charset byte
\* without a table entry was parsed
C9_Witness ==
    /\ pc = "Done" /\ call = "ParseBinary"
    /\ ret.hasFont
    /\ Len(data) >= 13 /\ data[5] = blockInfo
    /\ data[12] % 16 # 0
    /\ ~ret.fnt.Info.Unicode /\ ret.fnt.Info.Italic /\ ~ret.fnt.Info.Bold
    /\ ret.fnt.Info.Charset = << 55 >>

\* The largest length in bytes of a page file name, 0 without pages
MaxFileBytes(pages) ==
    IF Len(pages) = 0 THEN 0
    ELSE CHOOSE m \in {Len(pages[k].File) : k \in 1..Len(pages)} :
            \A k \in 1..Len(pages) : Len(pages[k].File) <= m

\* The step appended one block of type t whose declared length is declared
\* and whose body has that many bytes
AppendedBlock(t, declared) ==
    /\ Len(bw'.Dst) >= Len(bw.Dst) + 5
    /\ SubSeq(bw'.Dst, 1, Len(bw.Dst)) = bw.Dst
    /\ bw'.Dst[Len(bw.Dst) + 1] = t
    /\ LEUint32(SubSeq(bw'.Dst, Len(bw.Dst) + 2, Len(bw.Dst) + 5)) = declared
    /\ Len(bw'.Dst) = Len(bw.Dst) + 5 + declared

\* C10: layout of SerializeBinary's output.  "BMF", the version byte 3, then
\* the blocks 1, 2, 3, 4, 5 in that order with the declared lengths
\* 14 + len(face) + 1, 15, (maxPageNameLength + 1) x pageCount, 20 x charCount
\* and 10 x kerningCount, each block having as many body bytes as it declares,
\* lengths counted in bytes.
C10_OutputLayout ==
    [][ /\ pc = "SerializeInfo"
            => /\ Len(bw'.Dst) >= 9
               /\ SubSeq(bw'.Dst, 1, 4) = << 66, 77, 70, 3 >>
               /\ bw'.Dst[5] = 1
               /\ LEUint32(SubSeq(bw'.Dst, 6, 9)) = 14 + Len(f0.Info.Face) + 1
               /\ Len(bw'.Dst) = 9 + 14 + Len(f0.Info.Face) + 1
               /\ pc' = "SerializeCommon"
        /\ pc = "SerializeCommon" => AppendedBlock(2, 15) /\ pc' = "SerializePages"
        /\ pc = "SerializePages"
            => /\ AppendedBlock(3, (MaxFileBytes(f0.Pages) + 1) * Len(f0.Pages))
               /\ pc' = "SerializeChars"
        /\ pc = "SerializeChars"
            => AppendedBlock(4, 20 * Len(f0.Chars)) /\ pc' = "SerializeKernings"
        /\ pc = "SerializeKernings"
            => AppendedBlock(5, 10 * Len(f0.Kernings)) /\ pc' = "Serialized" ]_vars

\* The last n bytes of s
LastBytes(s, n) == SubSeq(s, Len(s) - n + 1, Len(s))

\* The bytes of the output from the pages block on, for a Font without pages:
\* they start right after the info and the common block
FromPagesBlock(f, out) ==
    SubSeq(out, 9 + 14 + Len(f.Info.Face) + 1 + 20 + 1, Len(out))

\* C11: empty collections.  For a Font whose Pages, Chars or Kernings is
\* empty, SerializeBinary writes the block of that collection with the
\* declared length 0 and no body, and ParseBinary accepts the output and
\* returns the empty sequence for that collection.
C11_EmptyCollections ==
    (pc = "Done" /\ call = "SerializeBinary")
        => /\ f0.Pages = << >>
                => /\ SubSeq(FromPagesBlock(f0, bw.Dst), 1, 6) = << 3, 0, 0, 0, 0, 4 >>
                   /\ ret.hasFont /\ ret.fnt.Pages = << >>
           /\ f0.Chars = << >>
                => /\ SubSeq(LastBytes(bw.Dst, 10 + 10 * Len(f0.Kernings)), 1, 6)
                          = << 4, 0, 0, 0, 0, 5 >>
                   /\ ret.hasFont /\ ret.fnt.Chars = << >>
           /\ f0.Kernings = << >>
                => /\ LastBytes(bw.Dst, 5) = << 5, 0, 0, 0, 0 >>
                   /\ ret.hasFont /\ ret.fnt.Kernings = << >>

\* s is a decimal literal: digits only, at least one
IsDecimal(s) == Len(s) > 0 /\ \A i \in 1..Len(s) : s[i] >= 48 /\ s[i] <= 57

\* The number a decimal literal denotes
RECURSIVE DecimalValue(_)
DecimalValue(s) ==
    IF Len(s) = 0 THEN 0
    ELSE 10 * DecimalValue(SubSeq(s, 1, Len(s) - 1)) + (s[Len(s)] - 48)

\* s is, letter case aside, a name of the charset table
IsTableName(s) ==
    \E k \in DOMAIN CharsetTable : ToLower(CharsetTable[k]) = ToLower(s)

\* C12: charset fallback.  A charset id without a table entry parses to its
\* decimal string; serializing a Font whose Charset is a decimal string that
\* is no table name writes the number it denotes as the charset id; a
\* Charset that is neither a table name nor a decimal literal writes 0.
C12_CharsetFallback ==
    [][ /\ (/\ pc = "ParseBlock" /\ HasLength /\ NextType = blockInfo /\ BlockAccepted
            /\ NextBody[3] % 128 < 64 /\ NextBody[4] \notin DOMAIN CharsetTable)
            => fnt'.Info.Charset = Itoa(NextBody[4])
        /\ (pc = "SerializeInfo" /\ ~IsTableName(f0.Info.Charset))
            => IF IsDecimal(f0.Info.Charset)
               THEN bw'.Dst[13] = DecimalValue(f0.Info.Charset)
               ELSE bw'.Dst[13] = 0 ]_vars

\* The numeric fields of f are within their binary field widths
FieldsFit(f) ==
    /\ InfoFits(f.Info) /\ CommonFits(f.Common)
    /\ \A k \in 1..Len(f.Chars) : CharFits(f.Chars[k])
    /\ \A k \in 1..Len(f.Kernings) : FitsInt16(f.Kernings[k].Amount)

\* C13: byte-exact fidelity.  For every Font f with at least one page and
\* fields within the binary field widths, ParseBinary accepts the bytes b that
\* SerializeBinary writes for f, and SerializeBinary on the Font it returns
\* writes exactly b again.
C13_ByteExactFidelity ==
    /\ (pc = "Done" /\ call = "SerializeBinary" /\ Len(f0.Pages) >= 1 /\ FieldsFit(f0))
          => ret.hasFont
    /\ (pc = "Reserialized" /\ Len(f0.Pages) >= 1 /\ FieldsFit(f0))
          => bw.Dst = data

------------------------------------------------------------------------
\* Lines of a text file, as the format describes them

\* Byte i of the line stands outside double quotes
OutsideQuotes(l, i) == CountByte(SubSeq(l, 1, i - 1), 34) % 2 = 0

\* Byte i of the line separates two tokens
Separates(l, i) == IsSpace(l[i]) /\ OutsideQuotes(l, i)

\* For every index of the line, whether the byte separates two tokens
SepMap(l) == [i \in 1..Len(l) |-> Separates(l, i)]

\* The indexes at which the tokens of the line start
TokenStarts(l, sep) == {i \in 1..Len(l) : ~sep[i] /\ (i = 1 \/ sep[i - 1])}

\* The token that starts at i is one key=value pair: it has one = outside
\* double quotes
IsPair(l, sep, i) ==
    Cardinality({k \in i..Len(l) :
                   l[k] = 61 /\ OutsideQuotes(l, k) /\ \A m \in i..k : ~sep[m]}) = 1

UnterminatedQuote(l) == CountByte(l, 34) % 2 = 1

\* The line has, after the tag, a token that is no key=value pair, or a double
\* quote that is not closed
IllFormed(l) ==
    \/ UnterminatedQuote(l)
    \/ With(SepMap(l), LAMBDA sep :
            \E i \in TokenStarts(l, sep) :
                /\ \E tag \in TokenStarts(l, sep) : tag < i
                /\ ~IsPair(l, sep, i))

\* C16: when ParseText reaches a line with a token after the tag that is no
\* key=value pair, or with an unterminated double quote, it returns no Font
\* and a TextParseError with the 1-based number and the text of that line,
\* and the return is final: no later line is read.
C16_TextLineErrors ==
    [][/\ (pc = "ScanLine" /\ lineNr < Len(sc.lines) /\ IllFormed(sc.lines[lineNr + 1]))
          => /\ pc' = "Returned"
             /\ ~ret'.hasFont
             /\ ret'.fnt = ZeroFont
             /\ ret'.err.Err # NoErr
             /\ ret'.err.LineNumber = lineNr + 1
             /\ ret'.err.Line = sc.lines[lineNr + 1]
       /\ (call \in {"ParseText", "SerializeText", "Parse"} /\ pc = "Returned")
             => (ret' = ret /\ pc' = "Returned")]_vars

\* The second line of a file of at least three lines is rejected
C16_Witness ==
    /\ pc = "Returned"
    /\ call = "ParseText"
    /\ lineNr = 2
    /\ Len(sc.lines) > 2
    /\ IllFormed(line)
    /\ ret.err.LineNumber = 2
    /\ ret.err.Line = sc.lines[2]

\* The last index of the token that starts at i
TokenEnd(l, sep, i) ==
    CHOOSE j \in i..Len(l) : (j = Len(l) \/ sep[j + 1]) /\ (\A m \in i..j : ~sep[m])

\* The line has a first token, and it is none of the five tags
UnrecognizedTag(l) ==
    With(SepMap(l), LAMBDA sep :
        \E i \in TokenStarts(l, sep) :
            /\ \A other \in TokenStarts(l, sep) : i <= other
            /\ SubSeq(l, i, TokenEnd(l, sep, i))
                 \notin {B("info"), B("common"), B("page"), B("char"), B("kerning")})

\* The step of ParseText on the line it reaches is no error and leaves the
\* Font and the return alone
SkipsLine == pc' = "ScanLine" /\ fnt' = fnt /\ ret' = ret

\* C17 as stated: every line whose first token is none of info, common, page,
\* char, kerning is skipped: it is no error and leaves the Font unchanged.
C17_UnrecognizedTagNeverAnError ==
    [][(pc = "ScanLine" /\ lineNr < Len(sc.lines) /\ UnrecognizedTag(sc.lines[lineNr + 1]))
          => SkipsLine]_vars

\* C17: a line whose first token is none of info, common, page, char, kerning
\* and whose other tokens are key=value pairs with closed double quotes is
\* skipped: it is no error and leaves the Font unchanged.
C17_WellFormedUnrecognizedTagSkipped ==
    [][(/\ pc = "ScanLine"
        /\ lineNr < Len(sc.lines)
        /\ UnrecognizedTag(sc.lines[lineNr + 1])
        /\ ~IllFormed(sc.lines[lineNr + 1]))
          => SkipsLine]_vars

\* "chars count=1" was skipped after a page line, and the Font holds the page
C17_Witness ==
    /\ pc = "ScanLine"
    /\ call = "ParseText"
    /\ lineNr = 2
    /\ line = B("chars count=1")
    /\ Len(fnt.Pages) = 1
    /\ fnt.Chars = << >>

\* ParseBinary or ParseText has returned a Font and no error
Succeeded == pc \in {"Done", "Returned"} /\ ret.hasFont /\ ret.err.Err = NoErr

\* C20: after every successful ParseBinary or ParseText the page at position
\* i of the result, counted from 0, has Id = i, whatever ids the input holds.
C20_PageIdInvariant ==
    (call \in {"ParseBinary", "SerializeBinary", "ParseText", "SerializeText"} /\ Succeeded)
        => \A i \in 1..Len(ret.fnt.Pages) : ret.fnt.Pages[i].Id = i - 1

\* C18: for every Font f, ParseText on the bytes SerializeText wrote for f
\* succeeds and returns a Font with the Info, Common, Pages, Chars and
\* Kernings of f; the strings of the Fonts hold spaces, double quotes and
\* backslashes.
C18_TextRoundTrip ==
    call = "SerializeText"
        => /\ pc # "Panicked"
           /\ pc = "Returned" => (Succeeded /\ ret.fnt = f0)

------------------------------------------------------------------------
\* C14, C15, C19: the three parsers and Parse

\* The three parsers returned a Font and no error, and the three Fonts are
\* equal field for field
ResultsIdentical ==
    \A i \in 1..3 :
        /\ results[i].hasFont
        /\ results[i].err.Err = NoErr
        /\ results[i].fnt = results[1].fnt

NoEdgeSpaces(f) ==
    \A i \in 1..Len(f.Pages) :
        \/ f.Pages[i].File = << >>
        \/ f.Pages[i].File[1] # 32 /\ f.Pages[i].File[Len(f.Pages[i].File)] # 32

HasPrefix(d, prefix) == Len(d) >= Len(prefix) /\ SubSeq(d, 1, Len(prefix)) = prefix

\* C15: the step of Parse.  Data of fewer than 5 bytes: Parse returns no Font
\* and the error, and no codec has run.  Else the call that follows is
\* ParseBinary on the whole data when it begins with "BMF", else ParseXML when
\* it begins with "<?xml", else ParseText on the whole data; and what that
\* call returns stays the return of Parse.
C15_AutoDetection ==
    [][/\ pc = "Parse" =>
            IF Len(data) < 5
            THEN /\ pc' = "Returned"
                 /\ ~ret'.hasFont
                 /\ ret'.err.Err = "data must have length of at least 5 bytes"
                 /\ UNCHANGED << fileReader, sc, fnt, lineNr >>
            ELSE IF HasPrefix(data, << 66, 77, 70 >>)
            THEN pc' = "ParseHeader" /\ fileReader' = NewReader(data) /\ fnt' = ZeroFont
            ELSE IF HasPrefix(data, << 60, 63, 120, 109, 108 >>)
            THEN pc' = "ParseXML" /\ doc' = doc
            ELSE /\ pc' = "ScanLine"
                 /\ sc' = NewScanner(data, NoErr)
                 /\ lineNr' = 0 /\ fnt' = ZeroFont
       /\ (call = "Parse" /\ pc \in {"Returned", "Done"}) => UNCHANGED << ret, pc >>
       /\ (call = "Parse" /\ pc' = "Done") => pc \in {"ParseHeader", "ParseBlock"}
       /\ (call = "Parse" /\ pc' = "Returned") => pc \in {"Parse", "ParseXML", "ScanLine"}]_vars

\* Parse returned the text codec's error for a malformed text file
C15_Witness ==
    /\ call = "Parse"
    /\ pc = "Returned"
    /\ Len(data) >= 5
    /\ ~ret.hasFont
    /\ ret.err.Err = "expected key-value pair"
    /\ ret.err.LineNumber = 2

\* C19: every call of Parse, ParseBinary, ParseText and ParseXML that returns,
\* returns a Font and no error, or an error and no Font.
C19_NoPartialResults ==
    pc \in {"Done", "Returned"} => (ret.hasFont <=> ret.err.Err = NoErr)

\* C21: primitive reader contract.  A block that parseBlockBinary accepts has
\* had its type byte read by ReadUInt8 and its length read by ReadUInt32, both
\* reporting success: the two reads have obtained 1 and 4 bytes from the
\* source and have advanced Index by 5, so Index after the block is at least
\* 5 more than before it.
C21_SuccessfulReadsAdvanceIndex ==
    [][(pc = "ParseBlock" /\ pc' = "ParseBlock") =>
           /\ fileReader'.Err = NoErr
           /\ fileReader'.Index >= fileReader.Index + 5]_vars

\* C22: exact block consumption.  A block whose type and length the input
\* holds and that parseBlockBinary accepts has taken exactly 5 + declared-length
\* bytes from the input, so that the next block-type byte is the byte after
\* the declared body; an info block that declares fewer than 15 bytes and a
\* common block that declares another length than 15 end ParseBinary with an
\* error that names the block.
C22_ExactBlockConsumption ==
    [][(pc = "ParseBlock" /\ pc' \in {"ParseBlock", "Done"} /\ HasLength) =>
           /\ BlockAccepted =>
                  /\ Consumed' - Consumed = 5 + NextLen
                  /\ fileReader'.Index - fileReader.Index = 5 + NextLen
           /\ (\/ NextType = blockInfo /\ NextLen < 15
               \/ NextType = blockCommon /\ NextLen # 15)
                  => (BlockRejected /\ ret'.err.Block = NextType)]_vars

\* Record i of the pages block at the head of the source: the bytes between
\* two stride boundaries, the stride being fixed by the first record
PageRecord(i) ==
    SubSeq(NextBody, (i - 1) * FirstZero(NextBody) + 1, i * FirstZero(NextBody))

\* The record holds a name of the first record's length: its only zero byte
\* is its last byte
SharesNameLength(rec) ==
    /\ rec[Len(rec)] = 0
    /\ \A j \in 1..(Len(rec) - 1) : rec[j] # 0

\* Some record after the first does not share the first record's name length
NamesDiffer ==
    /\ FirstZero(NextBody) # 0
    /\ \E i \in 2..(Len(NextBody) \div FirstZero(NextBody)) : ~SharesNameLength(PageRecord(i))

\* C23: pages strictness.  A pages block that the input holds completely and
\* in which some record after the first does not end with a zero byte at its
\* stride boundary, or holds a zero byte before it, ends ParseBinary with an
\* error and no Font.
C23_PagesStrictness ==
    [][(pc = "ParseBlock" /\ HasLength /\ BodyComplete /\ NextType = blockPages /\ NamesDiffer)
           => BlockRejected]_vars

\* The part of a Font that the blocks of a type own
PartOf(f, type) ==
    CASE type = blockInfo         -> f.Info
      [] type = blockCommon       -> f.Common
      [] type = blockPages        -> f.Pages
      [] type = blockChars        -> f.Chars
      [] type = blockKerningPairs -> f.Kernings

BlockTypes == {blockInfo, blockCommon, blockPages, blockChars, blockKerningPairs}

\* C29: block order and repetition.  A complete, well-formed block is accepted
\* whatever blocks came before it; the part of the Font that its type owns
\* then holds the content of this block alone, whatever an earlier block of
\* the type had put there; and every accepted block leaves the parts owned by
\* the other types unchanged.
C29_BlockOrderAndRepetition ==
    [][(pc = "ParseBlock" /\ HasLength /\ NextType \in BlockTypes) =>
           /\ (BodyComplete /\ WellFormedBody(NextType, NextBody)) =>
                  /\ BlockAccepted
                  /\ PartOf(fnt', NextType) =
                         parseBlockBody(NextType, NewReader(NextBody), NextLen).val
           /\ BlockAccepted =>
                  \A t \in BlockTypes \ {NextType} : PartOf(fnt', t) = PartOf(fnt, t)]_vars

\* ParseBinary has returned the Font of an input with two pages blocks, the
\* first of two pages and the second of one page: the Font holds one page
C29_Witness ==
    /\ pc = "Done" /\ call = "ParseBinary" /\ ret.hasFont
    /\ HeaderValid(data) /\ WellFormedStream(AfterHeader(data))
    /\ Len(data) = 20
    /\ data[5] = blockPages /\ data[6] = 4
    /\ data[14] = blockPages /\ data[15] = 2
    /\ Len(ret.fnt.Pages) = 1

\* The components of an attribute value: the texts between its commas
Components(s) == SplitN(s, 44, Len(s) + 1)

\* The integer value of component k, 0 for a component that is missing or
\* no integer
Component(s, k) ==
    IF k <= Len(Components(s)) /\ Atoi(Components(s)[k]).ok
    THEN Atoi(Components(s)[k]).value
    ELSE 0

\* C24: compound attribute parsing.  parsePadding returns the first four
\* components of its argument as Up, Right, Down, Left and parseSpacing the
\* first two as Horizontal, Vertical, a missing component being 0 and the
\* components after the fourth (the second) changing nothing; a Padding or
\* Spacing formatted by MarshalXMLAttr and parsed back is the same value.
C24_CompoundAttributes ==
    pc = "Returned" =>
        /\ call \in {"parsePadding", "Padding.MarshalXMLAttr"} =>
               results[1] = [ Up |-> Component(data, 1), Right |-> Component(data, 2),
                              Down |-> Component(data, 3), Left |-> Component(data, 4) ]
        /\ call \in {"parseSpacing", "Spacing.MarshalXMLAttr"} =>
               results[1] = [ Horizontal |-> Component(data, 1),
                              Vertical |-> Component(data, 2) ]
        /\ call \in {"Padding.MarshalXMLAttr", "Spacing.MarshalXMLAttr"} => results[1] = f0

\* C26: the charset table is bidirectional.  For every id in 0..255 the name
\* LookupCharset gives for the id, a table entry or the decimal fallback, is
\* turned back into (id, true) by LookupCharsetValue; and LookupCharsetValue
\* gives the id of a table name for the name written in any letter case.
C26_CharsetBidirectional ==
    pc = "Returned" =>
        /\ call = "LookupCharset" =>
               /\ results[1].found <=> f0 \in DOMAIN CharsetTable
               /\ results[2] = [value |-> f0, found |-> TRUE]
        /\ call = "LookupCharsetValue" =>
               \A k \in DOMAIN CharsetTable :
                   ToLower(data) = ToLower(CharsetTable[k])
                       => results[1] = [value |-> k, found |-> TRUE]

\* The id 200 has no table entry; its name "200" came back as (200, true)
C26_Witness ==
    /\ pc = "Returned" /\ call = "LookupCharset"
    /\ f0 = 200 /\ ~results[1].found /\ data = B("200")
    /\ results[2] = [value |-> 200, found |-> TRUE]

\* The attributes of a tag that the text codec reads as strings
StringKeys(name) ==
    IF name = B("info") THEN {"face", "charset", "padding", "spacing"}
    ELSE IF name = B("page") THEN {"file"}
    ELSE {}

\* The integer stored for key k of a tokenized line is an index into its strs
ValidIndex(t, k) == t.values[k] >= 0 /\ t.values[k] < Len(t.strs)

\* C28: string attribute lookup is always in bounds.  For every line the
\* tokenizer accepts, the integer stored for a string-typed attribute of an
\* info or page line is a valid index into the line's strs, and ParseText
\* never ends in the panic of an index out of range.
C28_StringIndexInBounds ==
    /\ pc # "Panicked"
    /\ (lineNr > 0 /\ parseTagText(line).err = NoErr) =>
           \A k \in StringKeys(parseTagText(line).name) \cap DOMAIN parseTagText(line).values :
               ValidIndex(parseTagText(line), k)

\* The line is empty or holds only white space
Blank(l) == \A i \in 1..Len(l) : IsSpace(l[i])

\* C30: blank lines in text input.  When ParseText reaches a line that is
\* empty or holds only white space, at any position of the input, it returns
\* no Font and the TextParseError "expected non empty tag" with the 1-based
\* number and the text of that line; the line is not skipped.
C30_BlankLineIsAnError ==
    [][(pc = "ScanLine" /\ lineNr < Len(sc.lines) /\ Blank(sc.lines[lineNr + 1]))
          => /\ pc' = "Returned"
             /\ ret' = [ hasFont |-> FALSE, fnt |-> ZeroFont,
                         err |-> [ Err |-> "expected non empty tag",
                                   Line |-> sc.lines[lineNr + 1],
                                   LineNumber |-> lineNr + 1 ] ]]_vars

\* ParseText has returned the error for a second line made of two spaces
C30_Witness ==
    /\ call = "ParseText" /\ pc = "Returned"
    /\ ~ret.hasFont /\ ret.err.Err = "expected non empty tag"
    /\ ret.err.LineNumber = 2 /\ ret.err.Line = << 32, 32 >>
    /\ Len(sc.lines) = 3

\* The tags whose attributes ParseText reads
TextTags == {"info", "page", "char", "common", "kerning"}

\* What ParseText's function for the tag returns for the attributes of a line
parseAttribs(name, attribs, strs) ==
    CASE name = "info"    -> parseInfoText(attribs, strs)
      [] name = "page"    -> parsePageText(attribs, strs)
      [] name = "char"    -> Parsed(FALSE, parseCharText(attribs))
      [] name = "common"  -> Parsed(FALSE, parseCommonText(attribs))
      [] name = "kerning" -> Parsed(FALSE, parseKerningPairText(attribs))

\* The keys of a map in one order
RECURSIVE SetToSeq(_)
SetToSeq(K) ==
    IF K = {} THEN << >>
    ELSE With(CHOOSE k \in K : TRUE, LAMBDA k : << k >> \o SetToSeq(K \ {k}))

\* Orders of iteration: one order, the orders that exchange two neighbours
\* of it, its rotations and its reversal.  For maps of up to three keys these
\* are all orders.
Exchanged(c, i, j) ==
    [n \in 1..Len(c) |-> IF n = i THEN c[j] ELSE IF n = j THEN c[i] ELSE c[n]]

Rotated(c, r) == [n \in 1..Len(c) |-> c[((n + r - 1) % Len(c)) + 1]]

Reversed(c) == [n \in 1..Len(c) |-> c[Len(c) + 1 - n]]

OrdersFrom(c) ==
    {c, Reversed(c)}
    \cup {Exchanged(c, i, i + 1) : i \in 1..(Len(c) - 1)}
    \cup {Rotated(c, r) : r \in 1..Len(c)}

IterationOrders(K) == OrdersFrom(SetToSeq(K))

\* The result of the loop over the attributes of a tokenized line is the same
\* in every order of iteration, and it is the result ParseText works with
OrderIndependent(name, t) ==
    \A result \in {parseAttribs(name, t.values, t.strs)} :
        \A order \in IterationOrders(DOMAIN t.values) :
            rangeAttribs(name, order, t.values, t.strs, Parsed(FALSE, ZeroOf(name))) = result

\* The keys of the charset table that an iteration over the table can reach
\* first among those whose name matches
CharsetMatches(charset) ==
    {k \in DOMAIN CharsetTable : ToLower(CharsetTable[k]) = ToLower(charset)}

\* C27: determinism.  What ParseText makes of a line does not depend on the
\* order in which the line's attribute map is iterated, and the charset id
\* SerializeBinary writes does not depend on the order in which the charset
\* table is iterated: whichever matching entry the iteration meets first,
\* the id is the same.
C27_IterationOrderIndependence ==
    /\ (lineNr > 0 /\ pc \in {"ScanLine", "Panicked"}) =>
           \A t \in {parseTagText(line)} :
               (t.err = NoErr /\ Str(t.name) \in TextTags) => OrderIndependent(Str(t.name), t)
    /\ call = "SerializeBinary" =>
           \A k \in CharsetMatches(f0.Info.Charset) :
               LookupCharsetValue(f0.Info.Charset) = [value |-> k, found |-> TRUE]

\* ParseText has read an info line with six attributes, three of them strings
C27_Witness ==
    /\ call = "ParseText" /\ lineNr = 1 /\ pc # "Panicked"
    /\ parseTagText(line).err = NoErr
    /\ parseTagText(line).name = B("info")
    /\ Cardinality(DOMAIN parseTagText(line).values) = 6
    /\ fnt.Info.Padding.Left = 4

\* bytes is the head of the bytes of f0 in the binary format, of what
\* SerializeBinary writes to a destination that never fails; with whole, it
\* is all of them
IsOutput(bytes, whole) ==
    \A w1 \in {serializeInfoBlockBinary(f0, serializeHeaderBinary(NewWriter))} :
    \A w2 \in {serializeCommonBlockBinary(f0, w1)} :
    \A w3 \in {serializePagesBlockBinary(f0, w2)} :
    \A w4 \in {serializeCharsBlockBinary(f0, w3)} :
    \A w5 \in {serializeKerningsBlockBinary(f0, w4)} :
        /\ Len(bytes) <= Len(w5.Dst)
        /\ bytes = SubSeq(w5.Dst, 1, Len(bytes))
        /\ whole => Len(bytes) = Len(w5.Dst)

\* The destination has failed a call of Write
DestinationFailed == bw.failAt # 0 /\ bw.calls >= bw.failAt

\* C25: a write failure is terminal.  Once a call of the destination's Write
\* has failed during SerializeBinary, the Writer holds that error, no later
\* call of the destination's Write is made (every later primitive write is a
\* no-op), the destination holds nothing but the bytes written up to the
\* failure, and SerializeBinary has returned that error at the end of the
\* block; without a failure it returns nil.
C25_WriteFailureIsTerminal ==
    /\ DestinationFailed =>
           /\ bw.Err = WriteFailed
           /\ bw.calls = bw.failAt
           /\ pc = "Serialized"
    /\ ~DestinationFailed => bw.Err = NoErr
    /\ IsOutput(bw.Dst, pc = "Serialized" /\ bw.Err = NoErr)

\* SerializeBinary has returned the error of the fifth call of Write, a call
\* inside the info block of which the destination took one byte
C25_Witness ==
    /\ pc = "Serialized" /\ bw.Err = WriteFailed
    /\ bw.failAt = 5 /\ bw.calls = 5 /\ bw.taken = 1
    /\ Len(f0.Kernings) = 2

====
